---- MODULE Spec2Model ----
(***************************************************************************)
(* Model of the k-way merge pipeline of pkg/store: the respSet cursor, the *)
(* heap merger (ProxyResponseHeap), the dedup wrapper (dedupResponseHeap)   *)
(* and the tournament merger (ProxyTournamentTree).                         *)
(*                                                                         *)
(* A LabelSet is modelled by a positive integer (labels.Compare is integer *)
(* comparison).  A response is a record [lbl, chks]: lbl = 0 is a response  *)
(* whose GetSeries() is nil (warning / hint), lbl = -1 is the nil pointer. *)
(* A chunk is modelled by its content hash; hash 0 is the zero-value       *)
(* AggrChunk{}.  Go indices are 0-based, TLA+ sequences 1-based: Go index  *)
(* i is position i+1 of the sequence.                                       *)
(***************************************************************************)
EXTENDS Integers, Sequences, FiniteSets, TLC

\* ---- bounds of the model ------------------------------------------------
MaxLabel == 2
MaxStreams == 3
MaxLen == 2
MaxResponses == 6
TreeMaxStreams == 5
TreeMaxLabel == 3
TreeMaxLen == 2
TreeMaxResponses == 6
PoolMaxCap == 2
PoolMaxConns == 4
MaxWrites == 2
NumWorkers == 2

VARIABLES
  streams,              \* the input: one sequence of responses per stream
  rs,                   \* respSet.i of every stream handed to the heap
  h,                    \* ProxyResponseHeap: the heap array (stream ids)
  hOut,                 \* every response ProxyResponseHeap.At has returned
  hRet,                 \* what ProxyResponseHeap.Next returned, "none" once At was called
  hPanic,               \* a Go panic in the heap pipeline (index out of range)
  responses,            \* dedupResponseHeap.responses
  previousResponse,     \* dedupResponseHeap.previousResponse
  previousNext,         \* dedupResponseHeap.previousNext
  dpc,                  \* consumer of the dedup stream: "idle", "next", "at", "done"
  dOut,                 \* every response dedupResponseHeap.At has returned, with its buffer
  ssi,                  \* respSeriesSet.i of every stream handed to the tree
  nodes,                \* ProxyTournamentTree.nodes (stream ids, Infinity)
  auxiliaryNodes,       \* ProxyTournamentTree.auxiliaryNodes
  lastChangedNodeIndex, \* ProxyTournamentTree.lastChangedNodeIndex
  tOut,                 \* what the caller read with At from every stream Pop returned
  tpc,                  \* caller of the tree: "idle", "pop", "fix", "done"
  tPanic,               \* a Go panic in the tree (nil dereference, index out of range)
  initCap,              \* NewTCPPool: the initCap argument
  maxCap,               \* NewTCPPool: the maxCap argument
  pool,                 \* the TCPPool: which of New, Ping, Close are set, and store
  pErr,                 \* what NewTCPPool returned as error, "panic" when it panicked
  created,              \* how many connections New has returned (connection ids 1..created)
  held,                 \* the connections callers hold from Get and have not given back
  destroyed,            \* a call of Destroy has returned
  pLast,                \* the last call on the pool, its arguments and results
  conn,                 \* RemoteWriteClient.conn: the connection it runs over, NilConn for nil
  wCalls,               \* how many calls of RemoteWrite have been made
  wLast,                \* the last call of RemoteWrite: what it did and returned
  storeClosed,          \* close(p.store) has run on the channel NewTCPPool made
  mu,                   \* TCPPool.mu: the goroutine holding it, NoGoroutine when free
  gpc,                  \* where every goroutine stands in its call of Get, Put or Destroy
  gch,                  \* the value of p.store every goroutine evaluated for its select
  gv,                   \* the connection every goroutine holds, NilConn for none
  closedConns,          \* the connections p.Close has been called with
  wasPut,               \* the connections Put has been called with
  racePanic             \* a goroutine panicked: send on closed channel

heapVars == <<rs, h, hOut, hRet, hPanic>>
dedupVars == <<responses, previousResponse, previousNext, dpc, dOut>>
treeVars == <<ssi, nodes, auxiliaryNodes, lastChangedNodeIndex, tOut, tpc, tPanic>>
poolVars == <<initCap, maxCap, pool, pErr, created, held, destroyed, pLast>>
clientVars == <<conn, wCalls, wLast>>
raceVars == <<storeClosed, mu, gpc, gch, gv, closedConns, wasPut, racePanic>>
vars == <<streams, heapVars, dedupVars, treeVars, poolVars, clientVars, raceVars>>

\* ---- responses ----------------------------------------------------------
NilResp == [lbl |-> -1, chks |-> <<>>]
NoSeries == [lbl |-> 0, chks |-> <<>>]
EmptyChunk == 0

GetSeries(r) == r.lbl > 0

RECURSIVE Increasing(_)
Increasing(s) ==
  IF Len(s) <= 1 THEN TRUE
  ELSE s[1] < s[2] /\ Increasing(Tail(s))

\* The chunks a store holds for a series, by their hashes: replicas of one
\* series overlap in part.  Store k answers with the chunks StoreChunks(k).
ReplicaChunks == <<<<1>>, <<1, 2>>, <<2>>>>

StoreChunks(k) == ReplicaChunks[((k - 1) % Len(ReplicaChunks)) + 1]

SeriesResponses(k) == [lbl : 1..MaxLabel, chks : {StoreChunks(k)}]

RECURSIVE SeriesLabels(_)
SeriesLabels(s) ==
  IF s = <<>> THEN <<>>
  ELSE IF GetSeries(s[1]) THEN <<s[1].lbl>> \o SeriesLabels(Tail(s))
       ELSE SeriesLabels(Tail(s))

\* A store answers with series in strictly increasing label order; warnings
\* and hints (no series) may sit anywhere.
SortedStreams(items, len) ==
  {s \in [1..len -> items] : Increasing(SeriesLabels(s))}

RECURSIVE Sum(_)
Sum(s) == IF s = <<>> THEN 0 ELSE s[1] + Sum(Tail(s))

\* The lengths of the response sets of n stores that hold at most cap
\* responses between them.
StreamLengths(n, minLen, maxLen, cap) ==
  {l \in [1..n -> minLen..maxLen] : Sum(l) <= cap}

\* The response sets of the first k stores, store i holding lens[i] responses.
RECURSIVE StoreInputs(_, _)
StoreInputs(lens, k) ==
  IF k = 0 THEN {<<>>}
  ELSE {Append(p, s) :
          p \in StoreInputs(lens, k - 1),
          s \in SortedStreams(SeriesResponses(k) \cup {NoSeries}, lens[k])}

IsHeapInput ==
  \E n \in 0..MaxStreams :
    \E lens \in StreamLengths(n, 0, MaxLen, MaxResponses) :
      streams \in StoreInputs(lens, n)

\* ---- respSet ------------------------------------------------------------
RespSetValid(strs, cur, k) == cur[k] < Len(strs[k])

respSetAt(strs, cur, k) == strs[k][cur[k] + 1]

respSetNext(cur, k) == [cur EXCEPT ![k] = @ + 1]

\* ---- ProxyResponseHeap (heap.Interface) ---------------------------------
\* Less with the label comparison turned round (labels.Compare(...) > 0).
LessGreater(strs, cur, hh, i, j) ==
  LET iResp == respSetAt(strs, cur, hh[i + 1])
      jResp == respSetAt(strs, cur, hh[j + 1])
  IN IF GetSeries(iResp) /\ GetSeries(jResp) THEN iResp.lbl > jResp.lbl
     ELSE IF ~GetSeries(iResp) /\ GetSeries(jResp) THEN TRUE
     ELSE FALSE

\* Less with the two mixed cases exchanged: a response without series
\* counts as greater than a series.
LessSeriesFirst(strs, cur, hh, i, j) ==
  LET iResp == respSetAt(strs, cur, hh[i + 1])
      jResp == respSetAt(strs, cur, hh[j + 1])
  IN IF GetSeries(iResp) /\ GetSeries(jResp) THEN iResp.lbl < jResp.lbl
     ELSE IF GetSeries(iResp) /\ ~GetSeries(jResp) THEN TRUE
     ELSE FALSE

Less(strs, cur, hh, i, j) ==
  LET iResp == respSetAt(strs, cur, hh[i + 1])
      jResp == respSetAt(strs, cur, hh[j + 1])
  IN IF GetSeries(iResp) /\ GetSeries(jResp) THEN iResp.lbl < jResp.lbl
     ELSE IF ~GetSeries(iResp) /\ GetSeries(jResp) THEN TRUE
     ELSE FALSE

Swap(hh, i, j) == [hh EXCEPT ![i + 1] = hh[j + 1], ![j + 1] = hh[i + 1]]

HeapPop(hh) == SubSeq(hh, 1, Len(hh) - 1)

Empty(hh) == Len(hh) = 0

Min(hh) == hh[1]

\* ---- container/heap, as called by the merger ----------------------------
RECURSIVE downLoop(_, _, _, _, _)
downLoop(strs, cur, hh, i, n) ==
  LET j1 == 2 * i + 1
      j2 == j1 + 1
      j == IF j2 < n /\ Less(strs, cur, hh, j2, j1) THEN j2 ELSE j1
  IN IF j1 >= n THEN [h |-> hh, i |-> i]
     ELSE IF ~Less(strs, cur, hh, j, i) THEN [h |-> hh, i |-> i]
     ELSE downLoop(strs, cur, Swap(hh, i, j), j, n)

down(strs, cur, hh, i0, n) ==
  LET r == downLoop(strs, cur, hh, i0, n)
  IN [h |-> r.h, moved |-> r.i > i0]

RECURSIVE up(_, _, _, _)
up(strs, cur, hh, j) ==
  LET i == (j - 1) \div 2
  IN IF j = 0 \/ i = j \/ ~Less(strs, cur, hh, j, i) THEN hh
     ELSE up(strs, cur, Swap(hh, i, j), i)

RECURSIVE heapInitLoop(_, _, _, _)
heapInitLoop(strs, cur, hh, i) ==
  IF i < 0 THEN hh
  ELSE heapInitLoop(strs, cur, down(strs, cur, hh, i, Len(hh)).h, i - 1)

heapInit(strs, cur, hh) == heapInitLoop(strs, cur, hh, (Len(hh) \div 2) - 1)

heapFix(strs, cur, hh, i) ==
  LET d == down(strs, cur, hh, i, Len(hh))
  IN IF d.moved THEN d.h ELSE up(strs, cur, d.h, i)

heapRemove(strs, cur, hh, i) ==
  LET n == Len(hh) - 1
      s == Swap(hh, i, n)
      d == down(strs, cur, s, i, n)
  IN IF n # i
     THEN HeapPop(IF d.moved THEN d.h ELSE up(strs, cur, d.h, i))
     ELSE HeapPop(hh)

\* ---- the merger ---------------------------------------------------------
\* heap.Init compares every element of a heap of two or more; Less reads
\* responses[i] of both, which is out of range for a respSet without
\* responses.
NewPanics(strs) ==
  Len(strs) >= 2 /\ \E k \in 1..Len(strs) : Len(strs[k]) = 0

ZeroCursors(strs) == [k \in 1..Len(strs) |-> 0]

Push(strs) == [k \in 1..Len(strs) |-> k]

NewProxyResponseHeap(strs) ==
  IF NewPanics(strs)
  THEN [h |-> <<>>, rs |-> ZeroCursors(strs), out |-> <<>>, panic |-> TRUE]
  ELSE [h |-> heapInit(strs, ZeroCursors(strs), Push(strs)),
        rs |-> ZeroCursors(strs), out |-> <<>>, panic |-> FALSE]

\* Next with the test turned round (h.Empty() for !h.Empty()).
ProxyNextFlipped(hs) == Empty(hs.h)

ProxyNext(hs) == ~Empty(hs.h)

\* The nil error.
NilError == "nil"

\* ProxyResponseHeap.Err
ProxyErr(hs) == NilError

\* ProxyResponseHeap.At: returns the root's response and advances the root.
ProxyAt(strs, hs) ==
  IF Empty(hs.h) \/ ~RespSetValid(strs, hs.rs, Min(hs.h))
  THEN [hs |-> [hs EXCEPT !.panic = TRUE], resp |-> NilResp]
  ELSE LET min == Min(hs.h)
           atResp == respSetAt(strs, hs.rs, min)
           cur == respSetNext(hs.rs, min)
           hh == IF RespSetValid(strs, cur, min)
                 THEN heapFix(strs, cur, hs.h, 0)
                 ELSE heapRemove(strs, cur, hs.h, 0)
       IN [hs |-> [h |-> hh, rs |-> cur, out |-> Append(hs.out, atResp),
                   panic |-> FALSE],
           resp |-> atResp]

HeapState == [h |-> h, rs |-> rs, out |-> hOut, panic |-> hPanic]

SetHeap(hs) ==
  /\ h' = hs.h
  /\ rs' = hs.rs
  /\ hOut' = hs.out
  /\ hPanic' = hs.panic

TreeIdle ==
  /\ ssi = <<>>
  /\ nodes = <<>>
  /\ auxiliaryNodes = <<>>
  /\ lastChangedNodeIndex = -1
  /\ tOut = <<>>
  /\ tpc = "idle"
  /\ tPanic = FALSE

DedupIdle ==
  /\ responses = <<>>
  /\ previousResponse = NilResp
  /\ previousNext = FALSE
  /\ dpc = "idle"
  /\ dOut = <<>>

\* new(TCPPool): every field is the zero value, store is the nil channel.
NilPool ==
  [New |-> FALSE, Ping |-> FALSE, Close |-> FALSE,
   store |-> <<>>, storeCap |-> 0, storeNil |-> TRUE]

NilConn == 0

NoCall ==
  [op |-> "none", v |-> NilConn, err |-> "nil", new |-> FALSE, closed |-> {},
   failed |-> {}, before |-> <<>>, wasDestroyed |-> FALSE]

\* No call of RemoteWrite has been made.
NoWrite ==
  [attempts |-> 0, failed |-> 0, dials |-> 0, err |-> "nil", panic |-> FALSE,
   closed |-> {}, closedNil |-> FALSE, putNil |-> FALSE,
   disconnected |-> FALSE, redialed |-> TRUE]

NoGoroutine == 0

\* No goroutine runs on the pool.
RaceIdle ==
  /\ storeClosed = FALSE
  /\ mu = NoGoroutine
  /\ gpc = <<>>
  /\ gch = <<>>
  /\ gv = <<>>
  /\ closedConns = {}
  /\ wasPut = {}
  /\ racePanic = FALSE

ClientIdle ==
  /\ conn = NilConn
  /\ wCalls = 0
  /\ wLast = NoWrite

PoolIdle ==
  /\ initCap = 0
  /\ maxCap = 0
  /\ pool = NilPool
  /\ pErr = "none"
  /\ created = 0
  /\ held = {}
  /\ destroyed = FALSE
  /\ pLast = NoCall

InitHeap ==
  /\ IsHeapInput
  /\ LET hs == NewProxyResponseHeap(streams)
     IN /\ h = hs.h
        /\ rs = hs.rs
        /\ hOut = hs.out
        /\ hPanic = hs.panic
  /\ hRet = "none"
  /\ DedupIdle
  /\ TreeIdle
  /\ PoolIdle
  /\ ClientIdle
  /\ RaceIdle

HeapNext ==
  /\ ~hPanic
  /\ hRet' = IF ProxyNext(HeapState) THEN "true" ELSE "false"
  /\ UNCHANGED <<streams, rs, h, hOut, hPanic, dedupVars, treeVars, poolVars, clientVars, raceVars>>

HeapAt ==
  /\ ~hPanic
  /\ SetHeap(ProxyAt(streams, HeapState).hs)
  /\ hRet' = "none"
  /\ UNCHANGED <<streams, dedupVars, treeVars, poolVars, clientVars, raceVars>>

NextHeap == HeapNext \/ HeapAt

SpecHeap == InitHeap /\ [][NextHeap]_vars

\* ---- a respSet read on its own -------------------------------------------
\* One respSet, as the struct literal leaves it (i = 0), read by a consumer
\* that advances it and reads it after every advance that returned true.
IsStreamInput ==
  \E lens \in StreamLengths(1, 0, MaxResponses, MaxResponses) :
    streams \in StoreInputs(lens, 1)

InitStream ==
  /\ IsStreamInput
  /\ rs = ZeroCursors(streams)
  /\ h = <<>>
  /\ hOut = <<>>
  /\ hRet = "none"
  /\ hPanic = FALSE
  /\ DedupIdle
  /\ TreeIdle
  /\ PoolIdle
  /\ ClientIdle
  /\ RaceIdle

\* respSet.Next; the consumer stops calling it a few calls after the end.
StreamNext ==
  /\ hRet \in {"none", "false"}
  /\ rs[1] <= Len(streams[1])
  /\ rs' = respSetNext(rs, 1)
  /\ hRet' = IF RespSetValid(streams, rs', 1) THEN "true" ELSE "false"
  /\ UNCHANGED <<streams, h, hOut, hPanic, dedupVars, treeVars, poolVars, clientVars, raceVars>>

\* respSet.At after an advance that returned true.
StreamAt ==
  /\ hRet = "true"
  /\ hOut' = Append(hOut, respSetAt(streams, rs, 1))
  /\ hRet' = "none"
  /\ UNCHANGED <<streams, rs, h, hPanic, dedupVars, treeVars, poolVars, clientVars, raceVars>>

NextStream == StreamNext \/ StreamAt

SpecStream == InitStream /\ [][NextStream]_vars

\* ---- dedupResponseHeap --------------------------------------------------
Range(s) == {s[i] : i \in DOMAIN s}

Last(s) == s[Len(s)]

\* The comparison of the run written as labels.Compare(lbls, lastLbls) < 0.
SameLabelsLess(a, b) == a.lbl < b.lbl

\* labels.Compare(lbls, lastLbls) == 0
SameLabels(a, b) == a.lbl = b.lbl

\* The for-loop of dedupResponseHeap.Next: reads the heap until it is empty
\* or yields a response that does not belong to the buffered run.  a is what
\* d.h.At() gave in this round (the heap after it and the response).
RECURSIVE dedupLoop(_, _, _)
RECURSIVE dedupLoopRound(_, _, _)
dedupLoopRound(strs, resps, a) ==
  IF a.hs.panic
  THEN [hs |-> a.hs, responses |-> resps, previousResponse |-> NilResp,
        nextHeap |-> TRUE]
  ELSE IF ~GetSeries(a.resp)
  THEN [hs |-> a.hs, responses |-> resps, previousResponse |-> a.resp,
        nextHeap |-> TRUE]
  ELSE IF SameLabels(a.resp, Last(resps))
  THEN dedupLoop(strs, a.hs, Append(resps, a.resp))
  ELSE [hs |-> a.hs, responses |-> resps, previousResponse |-> a.resp,
        nextHeap |-> TRUE]

dedupLoop(strs, hs, resps) ==
  IF ~ProxyNext(hs)
  THEN [hs |-> hs, responses |-> resps, previousResponse |-> NilResp,
        nextHeap |-> FALSE]
  ELSE CHOOSE l \in {dedupLoopRound(strs, resps, a) : a \in {ProxyAt(strs, hs)}} :
         TRUE

NewDedupResponseHeap(hs) ==
  [responses |-> <<>>, previousResponse |-> NilResp, previousNext |-> ProxyNext(hs)]

\* dedupResponseHeap.Next once the seed response is known: a holds the seed
\* and the heap after it was read.
dedupNextSeeded(strs, d, a) ==
  IF a.hs.panic
  THEN [d |-> d, hs |-> a.hs, ret |-> FALSE]
  ELSE IF ~GetSeries(a.resp)
  THEN [d |-> [responses |-> <<a.resp>>, previousResponse |-> a.resp,
               previousNext |-> FALSE],
        hs |-> a.hs, ret |-> TRUE]
  ELSE CHOOSE r \in
         {[d |-> [responses |-> l.responses,
                  previousResponse |-> l.previousResponse,
                  previousNext |-> l.nextHeap],
           hs |-> l.hs, ret |-> TRUE] :
            l \in {dedupLoop(strs, a.hs, <<a.resp>>)}} : TRUE

\* dedupResponseHeap.Next on the dedup fields d over the heap hs: the new
\* fields, the new heap and the value returned.
dedupNext(strs, d, hs) ==
  IF ~d.previousNext
  THEN [d |-> d, hs |-> hs, ret |-> Len(d.responses) > 0]
  ELSE CHOOSE r \in
         {dedupNextSeeded(strs, d, a) :
            a \in {IF d.previousResponse # NilResp
                   THEN [hs |-> hs, resp |-> d.previousResponse]
                   ELSE ProxyAt(strs, hs)}} : TRUE

\* The keys of chunkDedupMap: the content hashes of the chunks of the run.
chunkDedupMap(resps) == UNION {Range(resps[i].chks) : i \in DOMAIN resps}

Orderings(S) ==
  {o \in [1..Cardinality(S) -> S] : \A i, j \in DOMAIN o : i # j => o[i] # o[j]}

\* finalChunks: make([]AggrChunk, len(map)) followed by one append per map
\* entry, in the iteration order of the map (any order).
finalChunks(resps) ==
  {[i \in 1..Cardinality(chunkDedupMap(resps)) |-> EmptyChunk] \o o :
     o \in Orderings(chunkDedupMap(resps))}

\* At that folds every buffer that is not empty, also one of a single response.
dedupAtFoldsSingle(resps) ==
  IF Len(resps) = 0 THEN {NilResp}
  ELSE {[lbl |-> resps[1].lbl, chks |-> c] : c \in finalChunks(resps)}

\* The responses dedupResponseHeap.At may return for the buffer resps.
dedupAt(resps) ==
  IF Len(resps) = 0 THEN {NilResp}
  ELSE IF Len(resps) = 1 THEN {resps[1]}
  ELSE {[lbl |-> resps[1].lbl, chks |-> c] : c \in finalChunks(resps)}

DedupState ==
  [responses |-> responses, previousResponse |-> previousResponse,
   previousNext |-> previousNext]

SetDedup(d) ==
  /\ responses' = d.responses
  /\ previousResponse' = d.previousResponse
  /\ previousNext' = d.previousNext

InitDedup ==
  /\ IsHeapInput
  /\ LET hs == NewProxyResponseHeap(streams)
         d == NewDedupResponseHeap(hs)
     IN /\ h = hs.h
        /\ rs = hs.rs
        /\ hOut = hs.out
        /\ hPanic = hs.panic
        /\ responses = d.responses
        /\ previousResponse = d.previousResponse
        /\ previousNext = IF hs.panic THEN FALSE ELSE d.previousNext
        /\ dpc = IF hs.panic THEN "idle" ELSE "next"
  /\ hRet = "none"
  /\ dOut = <<>>
  /\ TreeIdle
  /\ PoolIdle
  /\ ClientIdle
  /\ RaceIdle

\* The consumer advances the dedup stream (also after it has ended).
DedupNext ==
  /\ ~hPanic
  /\ dpc \in {"next", "done"}
  /\ LET r == dedupNext(streams, DedupState, HeapState)
     IN /\ SetDedup(r.d)
        /\ SetHeap(r.hs)
        /\ dpc' = IF r.hs.panic THEN "idle" ELSE IF r.ret THEN "at" ELSE "done"
  /\ UNCHANGED <<streams, hRet, dOut, treeVars, poolVars, clientVars, raceVars>>

\* The consumer reads the current response after a successful advance.
DedupAt ==
  /\ ~hPanic
  /\ dpc = "at"
  /\ \E r \in dedupAt(responses) :
       dOut' = Append(dOut, [resp |-> r, run |-> responses])
  /\ responses' = <<>>
  /\ dpc' = "next"
  /\ UNCHANGED <<streams, heapVars, previousResponse, previousNext, treeVars, poolVars, clientVars, raceVars>>

NextDedup == DedupNext \/ DedupAt

SpecDedup == InitDedup /\ [][NextDedup]_vars

\* A consumer that calls At once more before the next call of Next.
DedupAtAgain ==
  /\ ~hPanic
  /\ dpc = "next"
  /\ dOut # <<>>
  /\ Len(dOut) < MaxResponses
  /\ \E r \in dedupAt(responses) :
       dOut' = Append(dOut, [resp |-> r, run |-> responses])
  /\ responses' = <<>>
  /\ dpc' = dpc
  /\ UNCHANGED <<streams, heapVars, previousResponse, previousNext, treeVars, poolVars, clientVars, raceVars>>

NextDedupCalls == DedupNext \/ DedupAt \/ DedupAtAgain

SpecDedupCalls == InitDedup /\ [][NextDedupCalls]_vars

\* ---- respSeriesSet ------------------------------------------------------
ssValid(strs, cur, k) == cur[k] < Len(strs[k])

ssAt(strs, cur, k) == strs[k][cur[k] + 1]

\* Next that moves the cursor two places.
ssNextSkips(cur, k) == [cur EXCEPT ![k] = @ + 2]

ssNext(cur, k) == [cur EXCEPT ![k] = @ + 1]

\* ---- ProxyTournamentTree ------------------------------------------------
\* var infinity storepb.SeriesSet: the nil interface value.
Infinity == 0

\* A nil *treeAuxNode.
NilAux ==
  [nil |-> TRUE, ss |-> Infinity, previousAuxIndex |-> -1, previousNodeIndex |-> -1]

treeAuxNode(ss, pa, pn) ==
  [nil |-> FALSE, ss |-> ss, previousAuxIndex |-> pa, previousNodeIndex |-> pn]

\* &treeAuxNode{ss: infinity}: both indices keep Go's zero value.
InfinityAux == treeAuxNode(Infinity, 0, 0)

nextLevelNodeCount(n) ==
  IF n % 2 = 0 THEN n \div 2
  ELSE IF n = 1 THEN 0
  ELSE 1 + (n \div 2)

\* The size of a tournament tree without the extra node of an odd level.
auxNodesOfFullTree(n) == n - 1

\* The loop of NewProxyTournamentTree that sizes auxiliaryNodes.
RECURSIVE auxNodes(_)
auxNodes(n) ==
  IF n <= 1 THEN 0
  ELSE IF n % 2 = 0 THEN (n \div 2) + auxNodes(n \div 2)
  ELSE 1 + (n \div 2) + auxNodes(1 + (n \div 2))

\* if len(nodes)%2 != 0 { nodes = append(nodes, infinity) }
PadNodes(n) ==
  [i \in 1..(IF n % 2 # 0 THEN n + 1 ELSE n) |-> IF i <= n THEN i ELSE Infinity]

\* initialFix, first loop: the aux node above the leaves left and left+1.
initialFixLeafPair(strs, cur, nds, left) ==
  LET right == left + 1
      l == nds[left + 1]
      r == nds[right + 1]
  IN IF r = Infinity /\ l # Infinity THEN treeAuxNode(l, -1, left)
     ELSE IF l = Infinity /\ r # Infinity THEN treeAuxNode(r, -1, left)
     ELSE IF l = Infinity /\ r = Infinity THEN InfinityAux
     ELSE IF ssAt(strs, cur, l).lbl < ssAt(strs, cur, r).lbl
     THEN treeAuxNode(l, -1, left)
     ELSE treeAuxNode(r, -1, right)

initialFixLeaves(strs, cur, nds, aux) ==
  [i \in 1..Len(aux) |->
     IF 2 * (i - 1) < Len(nds)
     THEN initialFixLeafPair(strs, cur, nds, 2 * (i - 1))
     ELSE aux[i]]

nilAuxNode(aux, i) == aux[i + 1].nil \/ aux[i + 1].ss = Infinity

\* initialFix, upper levels: the aux node written for the pair found from
\* previousLevelIdx.
initialFixAuxPair(strs, cur, aux, from, previousLevelIdx) ==
  LET leftIdx == IF previousLevelIdx % 2 = 0
                 THEN previousLevelIdx ELSE previousLevelIdx - 1
      rightIdx == IF previousLevelIdx % 2 = 0
                  THEN previousLevelIdx + 1 ELSE previousLevelIdx
  IN IF rightIdx >= from \/ nilAuxNode(aux, rightIdx)
     THEN treeAuxNode(aux[leftIdx + 1].ss, leftIdx, -1)
     ELSE IF nilAuxNode(aux, leftIdx) /\ ~nilAuxNode(aux, rightIdx)
     THEN treeAuxNode(aux[rightIdx + 1].ss, rightIdx, -1)
     ELSE IF ssAt(strs, cur, aux[leftIdx + 1].ss).lbl
               < ssAt(strs, cur, aux[rightIdx + 1].ss).lbl
     THEN treeAuxNode(aux[leftIdx + 1].ss, leftIdx, -1)
     ELSE treeAuxNode(aux[rightIdx + 1].ss, rightIdx, -1)

RECURSIVE initialFixRow(_, _, _, _, _, _, _)
initialFixRow(strs, cur, aux, loserIdx, until, from, previousLevelIdx) ==
  IF loserIdx > until THEN aux
  ELSE initialFixRow(strs, cur,
         [aux EXCEPT ![loserIdx + 1] =
            initialFixAuxPair(strs, cur, aux, from, previousLevelIdx)],
         loserIdx + 1, until, from, previousLevelIdx + 2)

RECURSIVE initialFixLevels(_, _, _, _, _, _)
initialFixLevels(strs, cur, aux, nodesInLevel, from, lastLoserIndex) ==
  IF nodesInLevel < 1 THEN aux
  ELSE LET newFrom == lastLoserIndex + 1
           until == lastLoserIndex + nodesInLevel
       IN initialFixLevels(strs, cur,
            initialFixRow(strs, cur, aux, newFrom, until, newFrom, from),
            nextLevelNodeCount(nodesInLevel), newFrom, until)

initialFix(strs, cur, nds, aux) ==
  initialFixLevels(strs, cur, initialFixLeaves(strs, cur, nds, aux),
                   nextLevelNodeCount(nextLevelNodeCount(Len(nds))),
                   0, (Len(nds) \div 2) - 1)

NewProxyTournamentTree(strs) ==
  LET nds == PadNodes(Len(strs))
      cur == [k \in 1..Len(strs) |-> 0]
      aux == [i \in 1..auxNodes(Len(nds)) |-> NilAux]
  IN [nodes |-> nds, aux |-> initialFix(strs, cur, nds, aux), last |-> -1,
      cur |-> cur, panic |-> FALSE]

\* ---- Fix ----------------------------------------------------------------
nilNode(nds, aux, i, lookInNodes) ==
  IF lookInNodes
  THEN IF i < 0 \/ i >= Len(nds) THEN TRUE ELSE nds[i + 1] = Infinity
  ELSE IF i < 0 \/ i >= Len(aux) THEN TRUE
       ELSE aux[i + 1].nil \/ aux[i + 1].ss = Infinity

peekNode(nds, aux, i, lookInNodes) ==
  IF lookInNodes
  THEN IF i < 0 \/ i >= Len(nds) THEN Infinity ELSE nds[i + 1]
  ELSE IF i < 0 \/ i >= Len(aux) THEN Infinity
       ELSE IF aux[i + 1].nil THEN Infinity
       ELSE aux[i + 1].ss

\* The aux node that records child idx as the winner.
winnerNode(nds, aux, idx, lookInNodes) ==
  IF lookInNodes
  THEN treeAuxNode(peekNode(nds, aux, idx, lookInNodes), -1, idx)
  ELSE treeAuxNode(peekNode(nds, aux, idx, lookInNodes), idx, -1)

\* "Deduce the winner": TRUE when the labels of both children are compared.
fixCompares(nds, aux, from, leftIdx, rightIdx, lookInNodes) ==
  /\ ~(rightIdx >= from \/ nilNode(nds, aux, rightIdx, lookInNodes))
  /\ ~nilNode(nds, aux, leftIdx, lookInNodes)

\* "Deduce the winner": the aux node Fix writes at one level.
fixWinner(strs, cur, nds, aux, from, leftIdx, rightIdx, lookInNodes) ==
  IF rightIdx >= from \/ nilNode(nds, aux, rightIdx, lookInNodes)
  THEN winnerNode(nds, aux, leftIdx, lookInNodes)
  ELSE IF ~nilNode(nds, aux, rightIdx, lookInNodes)
          /\ nilNode(nds, aux, leftIdx, lookInNodes)
  THEN winnerNode(nds, aux, rightIdx, lookInNodes)
  ELSE IF nilNode(nds, aux, rightIdx, lookInNodes)
          /\ nilNode(nds, aux, leftIdx, lookInNodes)
  THEN InfinityAux
  ELSE IF ssAt(strs, cur, peekNode(nds, aux, leftIdx, lookInNodes)).lbl
            < ssAt(strs, cur, peekNode(nds, aux, rightIdx, lookInNodes)).lbl
  THEN winnerNode(nds, aux, leftIdx, lookInNodes)
  ELSE winnerNode(nds, aux, rightIdx, lookInNodes)

\* The level loop of Fix.  st holds the loop variables; the result is the aux
\* array and whether the loop panicked (At of an exhausted respSeriesSet, or
\* an index past the aux array).
RECURSIVE fixLoop(_, _, _, _)
fixLoop(strs, cur, nds, st) ==
  LET loserIdx == st.from + st.auxNodeOffset
      cmp == fixCompares(nds, st.aux, st.from, st.leftIdx, st.rightIdx,
                         st.lookInNodes)
      l == peekNode(nds, st.aux, st.leftIdx, st.lookInNodes)
      r == peekNode(nds, st.aux, st.rightIdx, st.lookInNodes)
      nextCount == nextLevelNodeCount(st.nodesInLevel)
  IN IF st.nodesInLevel <= 0 THEN [aux |-> st.aux, panic |-> FALSE]
     ELSE IF loserIdx >= Len(st.aux) THEN [aux |-> st.aux, panic |-> TRUE]
     ELSE IF cmp /\ ~(ssValid(strs, cur, l) /\ ssValid(strs, cur, r))
     THEN [aux |-> st.aux, panic |-> TRUE]
     ELSE fixLoop(strs, cur, nds,
            [aux |-> [st.aux EXCEPT ![loserIdx + 1] =
                        fixWinner(strs, cur, nds, st.aux, st.from, st.leftIdx,
                                  st.rightIdx, st.lookInNodes)],
             nodesInLevel |-> nextCount,
             from |-> st.until + 1,
             until |-> st.until + nextCount,
             auxNodeOffset |-> st.auxNodeOffset \div 2,
             leftIdx |-> IF loserIdx % 2 = 0 THEN loserIdx ELSE loserIdx - 1,
             rightIdx |-> IF loserIdx % 2 = 0 THEN loserIdx + 1 ELSE loserIdx,
             lookInNodes |-> FALSE])

\* Fix without the test lastChangedNodeIndex == -1, on a tree whose
\* lastChangedNodeIndex starts at Go's zero value.
FixFromZero(strs, t) ==
  LET last == IF t.last = -1 THEN 0 ELSE t.last
      k == t.nodes[last + 1]
      cur == ssNext(t.cur, k)
      nds == IF ssValid(strs, cur, k) THEN t.nodes
             ELSE [t.nodes EXCEPT ![last + 1] = Infinity]
      r == fixLoop(strs, cur, nds,
             [aux |-> t.aux,
              nodesInLevel |-> nextLevelNodeCount(Len(nds)),
              from |-> 0,
              until |-> nextLevelNodeCount(Len(nds)) - 1,
              auxNodeOffset |-> last \div 2,
              leftIdx |-> IF last % 2 = 0 THEN last ELSE last - 1,
              rightIdx |-> IF last % 2 = 0 THEN last + 1 ELSE last,
              lookInNodes |-> TRUE])
  IN IF k = Infinity THEN [t EXCEPT !.panic = TRUE]
     ELSE [nodes |-> nds, aux |-> r.aux, last |-> last, cur |-> cur,
           panic |-> r.panic]

\* Fix that starts at the first aux node of the lowest level whatever the
\* leaf that changed.
FixAtFirstSlot(strs, t) ==
  LET last == t.last
      k == t.nodes[last + 1]
      cur == ssNext(t.cur, k)
      nds == IF ssValid(strs, cur, k) THEN t.nodes
             ELSE [t.nodes EXCEPT ![last + 1] = Infinity]
      r == fixLoop(strs, cur, nds,
             [aux |-> t.aux,
              nodesInLevel |-> nextLevelNodeCount(Len(nds)),
              from |-> 0,
              until |-> nextLevelNodeCount(Len(nds)) - 1,
              auxNodeOffset |-> 0,
              leftIdx |-> IF last % 2 = 0 THEN last ELSE last - 1,
              rightIdx |-> IF last % 2 = 0 THEN last + 1 ELSE last,
              lookInNodes |-> TRUE])
  IN IF last = -1 THEN [t EXCEPT !.panic = TRUE]
     ELSE IF k = Infinity THEN [t EXCEPT !.panic = TRUE]
     ELSE [nodes |-> nds, aux |-> r.aux, last |-> last, cur |-> cur,
           panic |-> r.panic]

\* ProxyTournamentTree.Fix on the tree t.
Fix(strs, t) ==
  LET last == t.last
      k == t.nodes[last + 1]
      cur == ssNext(t.cur, k)
      nds == IF ssValid(strs, cur, k) THEN t.nodes
             ELSE [t.nodes EXCEPT ![last + 1] = Infinity]
      r == fixLoop(strs, cur, nds,
             [aux |-> t.aux,
              nodesInLevel |-> nextLevelNodeCount(Len(nds)),
              from |-> 0,
              until |-> nextLevelNodeCount(Len(nds)) - 1,
              auxNodeOffset |-> last \div 2,
              leftIdx |-> IF last % 2 = 0 THEN last ELSE last - 1,
              rightIdx |-> IF last % 2 = 0 THEN last + 1 ELSE last,
              lookInNodes |-> TRUE])
  IN IF last = -1 THEN [t EXCEPT !.panic = TRUE]
     ELSE IF k = Infinity THEN [t EXCEPT !.panic = TRUE]
     ELSE [nodes |-> nds, aux |-> r.aux, last |-> last, cur |-> cur,
           panic |-> r.panic]

\* ---- Pop ----------------------------------------------------------------
\* The walk of Pop from the root down the back-references; fuel bounds the
\* walk, which does not end when a node refers to itself.
RECURSIVE popWalk(_, _, _, _, _)

\* The walk that sets to nil only the aux node above the leaf.
popWalkKeepsAuxNodes(aux, curNodeIdx, curNode, last, fuel) ==
  IF curNode.nil \/ fuel = 0 THEN [aux |-> aux, last |-> last, panic |-> TRUE]
  ELSE IF curNode.previousAuxIndex # -1
  THEN popWalk(aux, curNode.previousAuxIndex, aux[curNode.previousAuxIndex + 1],
               last, fuel - 1)
  ELSE IF curNode.previousNodeIndex # -1
  THEN [aux |-> [aux EXCEPT ![curNodeIdx + 1] = NilAux],
        last |-> curNode.previousNodeIndex, panic |-> FALSE]
  ELSE [aux |-> aux, last |-> last, panic |-> TRUE]

popWalk(aux, curNodeIdx, curNode, last, fuel) ==
  IF curNode.nil \/ fuel = 0 THEN [aux |-> aux, last |-> last, panic |-> TRUE]
  ELSE IF curNode.previousAuxIndex # -1
  THEN popWalk([aux EXCEPT ![curNodeIdx + 1] = NilAux],
               curNode.previousAuxIndex, aux[curNode.previousAuxIndex + 1],
               last, fuel - 1)
  ELSE IF curNode.previousNodeIndex # -1
  THEN [aux |-> [aux EXCEPT ![curNodeIdx + 1] = NilAux],
        last |-> curNode.previousNodeIndex, panic |-> FALSE]
  ELSE [aux |-> aux, last |-> last, panic |-> TRUE]

\* Pop without the test loserNode.ss != infinity.
PopNoInfinityTest(t) ==
  LET m == Len(t.aux)
      loserNode == t.aux[m]
      w == popWalk(t.aux, m - 1, loserNode, t.last, m + 1)
  IN IF m = 0 THEN [t |-> [t EXCEPT !.panic = TRUE], ss |-> Infinity]
     ELSE IF ~loserNode.nil
     THEN [t |-> [t EXCEPT !.aux = w.aux, !.last = w.last, !.panic = w.panic],
           ss |-> loserNode.ss]
     ELSE [t |-> t, ss |-> Infinity]

\* ProxyTournamentTree.Pop on the tree t: the new tree and the stream
\* returned (Infinity for nil).
Pop(t) ==
  LET m == Len(t.aux)
      loserNode == t.aux[m]
      w == popWalk(t.aux, m - 1, loserNode, t.last, m + 1)
  IN IF m = 0 THEN [t |-> [t EXCEPT !.panic = TRUE], ss |-> Infinity]
     ELSE IF ~loserNode.nil /\ loserNode.ss # Infinity
     THEN [t |-> [t EXCEPT !.aux = w.aux, !.last = w.last, !.panic = w.panic],
           ss |-> loserNode.ss]
     ELSE [t |-> t, ss |-> Infinity]

TreeState ==
  [nodes |-> nodes, aux |-> auxiliaryNodes, last |-> lastChangedNodeIndex,
   cur |-> ssi, panic |-> tPanic]

SetTree(t) ==
  /\ nodes' = t.nodes
  /\ auxiliaryNodes' = t.aux
  /\ lastChangedNodeIndex' = t.last
  /\ ssi' = t.cur

HeapIdle ==
  /\ rs = <<>>
  /\ h = <<>>
  /\ hOut = <<>>
  /\ hRet = "none"
  /\ hPanic = FALSE

TreeResponses == [lbl : 1..TreeMaxLabel, chks : {<<1>>}]

\* One or more streams, each holding one or more series.
RECURSIVE TreeStoreInputs(_, _)
TreeStoreInputs(lens, k) ==
  IF k = 0 THEN {<<>>}
  ELSE {Append(p, s) :
          p \in TreeStoreInputs(lens, k - 1),
          s \in SortedStreams(TreeResponses, lens[k])}

IsTreeInput ==
  \E n \in 1..TreeMaxStreams :
    \E lens \in StreamLengths(n, 1, TreeMaxLen, TreeMaxResponses) :
      streams \in TreeStoreInputs(lens, n)

InitTreeOver(strs) ==
  LET t == NewProxyTournamentTree(strs)
  IN /\ nodes = t.nodes
     /\ auxiliaryNodes = t.aux
     /\ lastChangedNodeIndex = t.last
     /\ ssi = t.cur
     /\ tPanic = t.panic
     /\ tOut = <<>>
     /\ tpc = "pop"

InitTree ==
  /\ IsTreeInput
  /\ InitTreeOver(streams)
  /\ HeapIdle
  /\ DedupIdle
  /\ PoolIdle
  /\ ClientIdle
  /\ RaceIdle

\* The caller pops (also after the terminal result) and reads the current
\* series of the stream it got.
TreePop ==
  /\ ~tPanic
  /\ tpc \in {"pop", "done"}
  /\ LET r == Pop(TreeState)
     IN /\ SetTree(r.t)
        /\ IF r.t.panic \/ (r.ss # Infinity /\ ~ssValid(streams, r.t.cur, r.ss))
           THEN tPanic' = TRUE /\ tOut' = tOut /\ tpc' = "idle"
           ELSE IF r.ss = Infinity
           THEN tPanic' = FALSE /\ tOut' = tOut /\ tpc' = "done"
           ELSE /\ tPanic' = FALSE
                /\ tOut' = Append(tOut, ssAt(streams, r.t.cur, r.ss))
                /\ tpc' = "fix"
  /\ UNCHANGED <<streams, heapVars, dedupVars, poolVars, clientVars, raceVars>>

\* The caller fixes the tree after a pop that returned a stream.
TreeFix ==
  /\ ~tPanic
  /\ tpc = "fix"
  /\ LET t == Fix(streams, TreeState)
     IN /\ SetTree(t)
        /\ tPanic' = t.panic
        /\ tpc' = IF t.panic THEN "idle" ELSE "pop"
  /\ tOut' = tOut
  /\ UNCHANGED <<streams, heapVars, dedupVars, poolVars, clientVars, raceVars>>

NextTree == TreePop \/ TreeFix

SpecTree == InitTree /\ [][NextTree]_vars

\* A caller that calls Fix on a tree it has never popped.
TreeFixBeforePop ==
  /\ ~tPanic
  /\ tpc = "pop"
  /\ lastChangedNodeIndex = -1
  /\ LET t == Fix(streams, TreeState)
     IN /\ SetTree(t)
        /\ tPanic' = t.panic
        /\ tpc' = IF t.panic THEN "idle" ELSE "pop"
  /\ tOut' = tOut
  /\ UNCHANGED <<streams, heapVars, dedupVars, poolVars, clientVars, raceVars>>

NextTreeCalls == TreePop \/ TreeFix \/ TreeFixBeforePop

SpecTreeCalls == InitTree /\ [][NextTreeCalls]_vars

\* A caller that pops again while a Fix is due; tpc = "nil" when that Pop
\* returned nil.
TreePopAgain ==
  /\ ~tPanic
  /\ tpc \in {"fix", "nil"}
  /\ LET r == Pop(TreeState)
     IN /\ SetTree(r.t)
        /\ IF r.t.panic \/ (r.ss # Infinity /\ ~ssValid(streams, r.t.cur, r.ss))
           THEN tPanic' = TRUE /\ tOut' = tOut /\ tpc' = "idle"
           ELSE IF r.ss = Infinity
           THEN tPanic' = FALSE /\ tOut' = tOut /\ tpc' = "nil"
           ELSE /\ tPanic' = FALSE
                /\ tOut' = Append(tOut, ssAt(streams, r.t.cur, r.ss))
                /\ tpc' = "fix"
  /\ UNCHANGED <<streams, heapVars, dedupVars, poolVars, clientVars, raceVars>>

\* The Fix that is due, called after the extra Pop.
TreeFixAfterPopAgain ==
  /\ ~tPanic
  /\ tpc = "nil"
  /\ LET t == Fix(streams, TreeState)
     IN /\ SetTree(t)
        /\ tPanic' = t.panic
        /\ tpc' = IF t.panic THEN "idle" ELSE "pop"
  /\ tOut' = tOut
  /\ UNCHANGED <<streams, heapVars, dedupVars, poolVars, clientVars, raceVars>>

\* A caller that calls Fix again with no Pop since the last Fix;
\* tpc = "fixpanic" when that Fix panicked.
TreeFixAgain ==
  /\ ~tPanic
  /\ tpc \in {"pop", "done"}
  /\ lastChangedNodeIndex # -1
  /\ LET t == Fix(streams, TreeState)
     IN /\ SetTree(t)
        /\ tPanic' = t.panic
        /\ tpc' = IF t.panic THEN "fixpanic" ELSE "pop"
  /\ tOut' = tOut
  /\ UNCHANGED <<streams, heapVars, dedupVars, poolVars, clientVars, raceVars>>

NextTreeAnyOrder ==
  TreePop \/ TreeFix \/ TreePopAgain \/ TreeFixAfterPopAgain \/ TreeFixAgain

SpecTreeAnyOrder == InitTree /\ [][NextTreeAnyOrder]_vars

\* ---- properties of the heap merger and of the dedup stream --------------
NonDecreasing(s) == \A i, j \in DOMAIN s : i < j => s[i] <= s[j]

Count(s, x) == Cardinality({i \in DOMAIN s : s[i] = x})

RECURSIVE Flatten(_)
Flatten(strs) == IF strs = <<>> THEN <<>> ELSE strs[1] \o Flatten(Tail(strs))

SameBag(s, t) ==
  /\ Len(s) = Len(t)
  /\ \A x \in Range(s) \cup Range(t) : Count(s, x) = Count(t, x)

RECURSIVE SortedSeq(_)
SortedSeq(S) ==
  IF S = {} THEN <<>>
  ELSE LET m == CHOOSE x \in S : \A y \in S : x <= y
       IN <<m>> \o SortedSeq(S \ {m})

\* A sequence of labels with every run of equal adjacent labels cut to one.
RECURSIVE Collapse(_)
Collapse(s) ==
  IF Len(s) <= 1 THEN s
  ELSE IF s[1] = s[2] THEN Collapse(Tail(s))
  ELSE <<s[1]>> \o Collapse(Tail(s))

AllSeries(strs) ==
  \A k \in DOMAIN strs : \A i \in DOMAIN strs[k] : GetSeries(strs[k][i])

NoEmptyStream(strs) == \A k \in DOMAIN strs : Len(strs[k]) > 0

\* The merge has ended: Next has returned false, or the pipeline panicked.
HeapFinished == hPanic \/ hRet = "false"

\* C1: the series responses the heap merger emits are in non-decreasing
\* label order (responses without series are not compared).
C1_HeapOutputSorted == NonDecreasing(SeriesLabels(hOut))

C1_Witness ==
  /\ ~hPanic
  /\ hRet = "false"
  /\ Len(streams) = 3
  /\ AllSeries(streams)
  /\ streams[1][1].lbl > streams[2][1].lbl
  /\ Len(hOut) = 5

\* C12: once Next of the heap merger has returned false, a later call of
\* Next returns false again (the only other call, At on the empty heap, is
\* fatal), and Err returns what it returned before.
C12_HeapTerminationSticks ==
  [][hRet = "false" =>
       /\ hRet' = "false" \/ hPanic'
       /\ ProxyErr(HeapState') = ProxyErr(HeapState)]_vars

C12_Witness ==
  /\ ~hPanic
  /\ hRet = "false"
  /\ Len(streams) = 3
  /\ Len(hOut) = 4

\* C18: constructing the heap merger over streams of which some are empty
\* does not panic, and the merge then ends having emitted the responses of
\* the streams that are not empty.
C18_EmptyStreamsDropped ==
  (\E k \in DOMAIN streams : Len(streams[k]) = 0) =>
    /\ ~NewProxyResponseHeap(streams).panic
    /\ hRet = "true" => Len(hOut) < Len(Flatten(streams))
    /\ HeapFinished => SameBag(hOut, Flatten(streams))

\* C19: At of the heap merger leaves the heap and the cursor of every input
\* stream as they were, and an At that follows an At returns the response
\* the earlier one returned.
C19_AtIsIdempotent ==
  [][HeapAt =>
       /\ h' = h
       /\ rs' = rs
       /\ (hRet = "none" /\ hOut # <<>> /\ ~hPanic') => Last(hOut') = Last(hOut)]_vars

\* C20: a respSet over k responses, read from its initial state, returns
\* true from Next k times and false afterwards, and At after the j-th
\* successful Next returns the j-th response.
C20_StreamYieldsEveryResponse ==
  /\ hOut = SubSeq(streams[1], 1, Len(hOut))
  /\ hRet = "false" => Len(hOut) = Len(streams[1])

\* What the respSet does from i = 0: Next returns true k-1 times, and At
\* after the j-th successful Next returns response j+1.
StreamSkipsFirstResponse ==
  /\ hOut = SubSeq(streams[1], 2, Len(hOut) + 1)
  /\ hRet = "false" => Len(hOut) = (IF Len(streams[1]) = 0 THEN 0 ELSE Len(streams[1]) - 1)

\* The response at the front of stream k is a series.
FrontIsSeries(k) ==
  RespSetValid(streams, rs, k) /\ GetSeries(respSetAt(streams, rs, k))

\* C22: whenever the response the heap merger is about to emit (the front of
\* the root) is a series, the front of every stream in the heap is a series:
\* fronts without series are emitted first.
C22_NoSeriesDrainFirst ==
  (~hPanic /\ ~Empty(h) /\ FrontIsSeries(Min(h))) =>
    \A i \in DOMAIN h : FrontIsSeries(h[i])

C22_Witness ==
  /\ ~hPanic
  /\ Len(streams) = 3
  /\ Len(hOut) = 3
  /\ GetSeries(hOut[1])
  /\ ~GetSeries(hOut[2])
  /\ GetSeries(hOut[3])
  /\ ~Empty(h)

\* C2: when the heap merge has ended it has emitted as many responses as the
\* inputs hold, and the emitted responses are the inputs' responses, each as
\* often as it occurs in the inputs.
C2_HeapPermutation == HeapFinished => SameBag(hOut, Flatten(streams))

\* The permutation property of C2 over inputs none of whose streams is empty.
HeapPermutationNoEmptyStream ==
  (HeapFinished /\ NoEmptyStream(streams)) => SameBag(hOut, Flatten(streams))

HeapPermutationNoEmptyStreamWitness ==
  /\ hRet = "false"
  /\ Len(hOut) = 5
  /\ ~AllSeries(streams)

DedupFinished == hPanic \/ dpc = "done"

DedupResponses == [i \in DOMAIN dOut |-> dOut[i].resp]

DedupLabels == [i \in DOMAIN dOut |-> dOut[i].resp.lbl]

InputLabels == {r.lbl : r \in {x \in Range(Flatten(streams)) : GetSeries(x)}}

\* C6: over inputs of series responses, when the dedup stream has ended the
\* labels of its outputs are the distinct labels of the inputs in ascending
\* order, each once.
C6_DedupDistinctLabels ==
  (AllSeries(streams) /\ DedupFinished) => DedupLabels = SortedSeq(InputLabels)

\* The statement of C6 over inputs none of whose streams is empty.
DedupDistinctLabelsNoEmptyStream ==
  (AllSeries(streams) /\ NoEmptyStream(streams) /\ DedupFinished)
    => DedupLabels = SortedSeq(InputLabels)

DedupDistinctLabelsNoEmptyStreamWitness ==
  /\ AllSeries(streams)
  /\ dpc = "done"
  /\ Len(hOut) = 5
  /\ Len(dOut) = 2

\* The responses read from the heap that the dedup stream has put in a
\* buffer: all but a series response held back as look-ahead.
Consumed ==
  IF GetSeries(previousResponse) THEN SubSeq(hOut, 1, Len(hOut) - 1) ELSE hOut

Buffered ==
  IF dpc = "at" /\ GetSeries(responses[1]) THEN <<responses[1].lbl>> ELSE <<>>

\* C7: no two consecutive series outputs of the dedup stream have equal
\* labels, and the outputs (with the buffer not yet read) are the runs of
\* equal labels read from the heap, one output per run.
C7_DedupNoAdjacentEqual ==
  /\ \A i \in 1..(Len(dOut) - 1) :
       (GetSeries(dOut[i].resp) /\ GetSeries(dOut[i + 1].resp))
         => dOut[i].resp.lbl # dOut[i + 1].resp.lbl
  /\ Collapse(SeriesLabels(Consumed)) = SeriesLabels(DedupResponses) \o Buffered

C7_Witness ==
  /\ Len(dOut) = 2
  /\ Len(dOut[1].run) = 3
  /\ Len(dOut[2].run) = 2
  /\ dpc = "done"

\* C8: an output folded from a run of two or more responses carries exactly
\* one chunk per content hash of the run and no other chunk.
C8_FoldedChunksExact ==
  \A i \in DOMAIN dOut :
    Len(dOut[i].run) >= 2 =>
      /\ Range(dOut[i].resp.chks) = chunkDedupMap(dOut[i].run)
      /\ Len(dOut[i].resp.chks) = Cardinality(chunkDedupMap(dOut[i].run))

\* C9: a response without series is output on its own, once, and the dedup
\* stream does not end after it while the heap still holds responses.
C9_NoSeriesPassesThrough ==
  /\ \A i \in DOMAIN dOut :
       ~GetSeries(dOut[i].resp) => dOut[i].run = <<dOut[i].resp>>
  /\ Count(DedupResponses, NoSeries) <= Count(hOut, NoSeries)
  /\ (dpc = "done" /\ dOut # <<>> /\ ~GetSeries(Last(dOut).resp)) => Empty(h)

\* ---- the heap merger and the tournament merger over the same input ------
IsEquivInput ==
  \E n \in 1..MaxStreams :
    \E lens \in StreamLengths(n, 1, TreeMaxLen, TreeMaxResponses) :
      streams \in TreeStoreInputs(lens, n)

InitEquiv ==
  /\ IsEquivInput
  /\ InitTreeOver(streams)
  /\ LET hs == NewProxyResponseHeap(streams)
     IN /\ h = hs.h
        /\ rs = hs.rs
        /\ hOut = hs.out
        /\ hPanic = hs.panic
  /\ hRet = "none"
  /\ DedupIdle
  /\ PoolIdle
  /\ ClientIdle
  /\ RaceIdle

NextEquiv == HeapNext \/ HeapAt \/ TreePop \/ TreeFix

SpecEquiv == InitEquiv /\ [][NextEquiv]_vars

\* ---- the connection pool of pkg/receive/writecapnp (TCPPool) -------------
\* A connection is a positive integer, NilConn the nil value.  The pool is a
\* record: New, Ping and Close say whether the field is set, store is the
\* buffer of the channel (oldest first), storeCap its capacity and storeNil
\* whether p.store is the nil channel.  Every call runs alone, from its first
\* statement to its return.

\* p.create(): ok is whether the call of New succeeds, id what it returns.
create(pl, ok, id) ==
  IF ~pl.New THEN [v |-> NilConn, err |-> "Pool.New is nil", called |-> FALSE]
  ELSE IF ok THEN [v |-> id, err |-> NilError, called |-> TRUE]
  ELSE [v |-> NilConn, err |-> "error", called |-> TRUE]

\* The loop of NewTCPPool from index i on; the call number fails of New
\* returns an error (0: no call does).
RECURSIVE newLoop(_, _, _, _)
newLoop(pl, i, ic, fails) ==
  IF i < ic
  THEN LET c == create(pl, i + 1 # fails, i + 1)
       IN IF c.err # NilError
          THEN [p |-> pl, err |-> c.err]
          ELSE newLoop([pl EXCEPT !.store = Append(@, c.v)], i + 1, ic, fails)
  ELSE [p |-> pl, err |-> NilError]

\* make(chan interface{}, maxCap) panics when maxCap is negative.
NewTCPPool(ic, mc, newFunc, fails) ==
  IF mc = 0 \/ ic > mc
  THEN [p |-> NilPool, err |-> "invalid capacity settings"]
  ELSE IF mc < 0
  THEN [p |-> NilPool, err |-> "panic"]
  ELSE newLoop([NilPool EXCEPT !.storeNil = FALSE, !.storeCap = mc,
                               !.New = newFunc], 0, ic, fails)

\* NewTCPPool handed a pool to its caller.
PoolReturned(err) == err \in {NilError, "error", "Pool.New is nil"}

PoolLen(pl) == Len(pl.store)

\* The loop of Get: pingOk is the set of connections Ping accepts, failed
\* the connections it has rejected so far.
RECURSIVE getLoop(_, _, _, _, _)
getLoop(pl, pingOk, newOk, id, failed) ==
  IF pl.store # <<>>
  THEN LET v == Head(pl.store)
           q == [pl EXCEPT !.store = Tail(@)]
       IN IF pl.Ping /\ v \notin pingOk
          THEN getLoop(q, pingOk, newOk, id, failed \cup {v})
          ELSE [p |-> q, v |-> v, err |-> NilError, new |-> FALSE, failed |-> failed]
  ELSE LET c == create(pl, newOk, id)
       IN [p |-> pl, v |-> c.v, err |-> c.err, new |-> c.called, failed |-> failed]

\* Get that never reads the store.
GetAlwaysCreates(pl, pingOk, newOk, id) ==
  IF pl.storeNil
  THEN [p |-> pl, v |-> NilConn, err |-> "ErrClosed", new |-> FALSE, failed |-> {}]
  ELSE LET c == create(pl, newOk, id)
       IN [p |-> pl, v |-> c.v, err |-> c.err, new |-> c.called, failed |-> {}]

Get(pl, pingOk, newOk, id) ==
  IF pl.storeNil
  THEN [p |-> pl, v |-> NilConn, err |-> "ErrClosed", new |-> FALSE, failed |-> {}]
  ELSE getLoop(pl, pingOk, newOk, id, {})

\* Put that sends without looking at the capacity.
PutOverCapacity(pl, v) ==
  [p |-> [pl EXCEPT !.store = Append(@, v)], closed |-> {}]

\* A send on the nil channel or on a full channel is not ready: default runs.
Put(pl, v) ==
  IF ~pl.storeNil /\ Len(pl.store) < pl.storeCap
  THEN [p |-> [pl EXCEPT !.store = Append(@, v)], closed |-> {}]
  ELSE [p |-> pl, closed |-> IF pl.Close THEN {v} ELSE {}]

\* Destroy that leaves p.store in place.
DestroyKeepsStore(pl, closeErrs) ==
  LET closed == IF pl.Close THEN Range(pl.store) ELSE {}
  IN [p |-> pl,
      err |-> IF closed \cap closeErrs # {} THEN "close errors" ELSE NilError,
      closed |-> closed]

\* closeErrs is the set of connections for which Close returns an error.
Destroy(pl, closeErrs) ==
  IF pl.storeNil
  THEN [p |-> pl, err |-> NilError, closed |-> {}]
  ELSE LET closed == IF pl.Close THEN Range(pl.store) ELSE {}
       IN [p |-> [pl EXCEPT !.store = <<>>, !.storeNil = TRUE],
           err |-> IF closed \cap closeErrs # {} THEN "close errors" ELSE NilError,
           closed |-> closed]

\* The caller sets Ping and Close on the pool NewTCPPool returned.
InitPool ==
  /\ streams = <<>>
  /\ HeapIdle
  /\ DedupIdle
  /\ TreeIdle
  /\ initCap \in (-1)..(PoolMaxCap + 1)
  /\ maxCap \in (-1)..PoolMaxCap
  /\ \E newFunc \in BOOLEAN, fails \in 0..PoolMaxCap, ping \in BOOLEAN, close \in BOOLEAN :
       LET r == NewTCPPool(initCap, maxCap, newFunc, fails)
       IN /\ pErr = r.err
          /\ pool = IF PoolReturned(r.err)
                    THEN [r.p EXCEPT !.Ping = ping, !.Close = close]
                    ELSE NilPool
          /\ created = Len(r.p.store)
  /\ held = {}
  /\ destroyed = FALSE
  /\ pLast = NoCall
  /\ ClientIdle
  /\ RaceIdle

PoolGet ==
  /\ PoolReturned(pErr)
  /\ \E pingOk \in SUBSET Range(pool.store), newOk \in BOOLEAN :
       LET r == Get(pool, pingOk, newOk, created + 1)
           n == IF r.new /\ r.err = NilError THEN created + 1 ELSE created
       IN /\ n <= PoolMaxConns
          /\ pool' = r.p
          /\ created' = n
          /\ held' = IF r.err = NilError THEN held \cup {r.v} ELSE held
          /\ pLast' = [op |-> "Get", v |-> r.v, err |-> r.err, new |-> r.new,
                       closed |-> {}, failed |-> r.failed,
                       before |-> pool.store, wasDestroyed |-> destroyed]
  /\ UNCHANGED <<streams, heapVars, dedupVars, treeVars, clientVars, raceVars, initCap, maxCap, pErr, destroyed>>

PoolPut ==
  /\ PoolReturned(pErr)
  /\ \E v \in held :
       LET r == Put(pool, v)
       IN /\ pool' = r.p
          /\ held' = held \ {v}
          /\ pLast' = [op |-> "Put", v |-> v, err |-> NilError, new |-> FALSE,
                       closed |-> r.closed, failed |-> {},
                       before |-> pool.store, wasDestroyed |-> destroyed]
  /\ UNCHANGED <<streams, heapVars, dedupVars, treeVars, clientVars, raceVars, initCap, maxCap, pErr, created, destroyed>>

PoolDestroy ==
  /\ PoolReturned(pErr)
  /\ \E closeErrs \in SUBSET Range(pool.store) :
       LET r == Destroy(pool, closeErrs)
       IN /\ pool' = r.p
          /\ pLast' = [op |-> "Destroy", v |-> NilConn, err |-> r.err, new |-> FALSE,
                       closed |-> r.closed, failed |-> {},
                       before |-> pool.store, wasDestroyed |-> destroyed]
  /\ destroyed' = TRUE
  /\ UNCHANGED <<streams, heapVars, dedupVars, treeVars, clientVars, raceVars, initCap, maxCap, pErr, created, held>>

NextPool == PoolGet \/ PoolPut \/ PoolDestroy

SpecPool == InitPool /\ [][NextPool]_vars

\* ---- the remote-write client of pkg/receive/writecapnp --------------------
\* NewTCPDialer: NewTCPPool(1, 64, ...), then tcpPool.Close is set.
DialerInitCap == 1
DialerMaxCap == 64

\* The outcomes of one write attempt: result.Struct() fails with a
\* disconnect, fails with another error, or gives a result whose Error() is
\* unavailable (one of the four error cases of the switch) or none.
WriteOutcomes == {"ok", "unavailable", "disconnected", "error"}

\* writeWithReconnect is entered three times at most: one outcome each.
AttemptOutcomes == [1..3 -> WriteOutcomes]
DialOutcomes == [1..3 -> BOOLEAN]

\* The state one call of RemoteWrite works on: the client's conn, the pool
\* of its dialer, the connections created so far, and what the call did.
ClientState ==
  [conn |-> conn, pool |-> pool, created |-> created,
   attempts |-> 0, failed |-> 0, dials |-> 0, err |-> NilError,
   panic |-> FALSE, closed |-> {}, closedNil |-> FALSE, putNil |-> FALSE,
   disconnected |-> wLast.disconnected, redialed |-> TRUE]

\* RemoteWriteClient.connect: returns (nil, nil) when r.conn is set; else
\* TCPDialer.Dial calls connPool.New.  c is the net.Conn returned.
connect(st, dialOk) ==
  IF st.conn # NilConn
  THEN [st |-> [st EXCEPT !.redialed = @ /\ ~st.disconnected,
                          !.disconnected = FALSE],
        c |-> NilConn, err |-> NilError]
  ELSE IF ~dialOk
  THEN [st |-> [st EXCEPT !.dials = @ + 1, !.disconnected = FALSE],
        c |-> NilConn, err |-> "failed to dial peer"]
  ELSE [st |-> [st EXCEPT !.dials = @ + 1, !.disconnected = FALSE,
                          !.created = @ + 1, !.conn = st.created + 1],
        c |-> st.created + 1, err |-> NilError]

\* RemoteWriteClient.put: d.connPool.Put(c).
put(st, c) ==
  LET r == Put(st.pool, c)
  IN [st EXCEPT !.pool = r.p, !.closed = @ \cup r.closed,
                !.putNil = @ \/ c = NilConn]

\* conn.Close() and r.conn = nil after a disconnect; conn.Close() on the nil
\* net.Conn is a nil dereference.
closeOnDisconnect(st, c) ==
  IF c = NilConn
  THEN [st EXCEPT !.closedNil = TRUE, !.panic = TRUE]
  ELSE [st EXCEPT !.closed = @ \cup {c}, !.conn = NilConn, !.disconnected = TRUE]

RECURSIVE writeWithReconnect(_, _, _, _)
writeWithReconnect(st, numReconnects, writes, dials) ==
  LET cn == connect(st, Head(dials))
      w == Head(writes)
      tried == [cn.st EXCEPT !.attempts = @ + 1]
      lost == [tried EXCEPT !.failed = @ + 1]
      after == IF w = "disconnected" THEN closeOnDisconnect(lost, cn.c) ELSE lost
  IN IF cn.err # NilError THEN [cn.st EXCEPT !.err = cn.err]
     ELSE IF w \in {"disconnected", "error"}
     THEN IF after.panic THEN after
          ELSE IF numReconnects > 0
          THEN writeWithReconnect(after, numReconnects - 1, Tail(writes), Tail(dials))
          ELSE [after EXCEPT !.err = "failed writing to peer"]
     ELSE [put(tried, cn.c) EXCEPT
             !.err = IF w = "unavailable" THEN "rpc failed" ELSE NilError]

RemoteWrite(st, writes, dials) == writeWithReconnect(st, 2, writes, dials)

\* NewTCPDialer succeeded and NewRemoteWriteClient was given its dialer.
InitClient ==
  /\ streams = <<>>
  /\ HeapIdle
  /\ DedupIdle
  /\ TreeIdle
  /\ initCap = DialerInitCap
  /\ maxCap = DialerMaxCap
  /\ LET r == NewTCPPool(DialerInitCap, DialerMaxCap, TRUE, 0)
     IN /\ pErr = r.err
        /\ pool = [r.p EXCEPT !.Close = TRUE]
        /\ created = Len(r.p.store)
  /\ held = {}
  /\ destroyed = FALSE
  /\ pLast = NoCall
  /\ ClientIdle
  /\ RaceIdle

ClientRemoteWrite ==
  /\ ~wLast.panic
  /\ wCalls < MaxWrites
  /\ \E writes \in AttemptOutcomes, dials \in DialOutcomes :
       LET st == RemoteWrite(ClientState, writes, dials)
       IN /\ conn' = st.conn
          /\ pool' = st.pool
          /\ created' = st.created
          /\ wLast' = [attempts |-> st.attempts, failed |-> st.failed,
                       dials |-> st.dials, err |-> st.err, panic |-> st.panic,
                       closed |-> st.closed, closedNil |-> st.closedNil,
                       putNil |-> st.putNil, disconnected |-> st.disconnected,
                       redialed |-> st.redialed]
  /\ wCalls' = wCalls + 1
  /\ UNCHANGED <<streams, heapVars, dedupVars, treeVars, initCap, maxCap, pErr, held, destroyed, pLast, raceVars>>

\* RemoteWriteClient.Close: d.connPool.Destroy().
ClientClose ==
  /\ ~wLast.panic
  /\ \E closeErrs \in SUBSET (Range(pool.store) \ {NilConn}) :
       LET r == Destroy(pool, closeErrs)
       IN /\ pool' = r.p
          /\ pLast' = [op |-> "Destroy", v |-> NilConn, err |-> r.err, new |-> FALSE,
                       closed |-> r.closed, failed |-> {},
                       before |-> pool.store, wasDestroyed |-> destroyed]
  /\ destroyed' = TRUE
  /\ UNCHANGED <<streams, heapVars, dedupVars, treeVars, clientVars, raceVars, initCap, maxCap, pErr, created, held>>

NextClient == ClientRemoteWrite \/ ClientClose

SpecClient == InitClient /\ [][NextClient]_vars

(***************************************************************************)
(* Goroutines on one TCPPool.  Workers call Get and Put, one goroutine     *)
(* calls Destroy.  Get and Put read p.store without holding p.mu, Destroy  *)
(* writes it while holding p.mu: every step below is one access of the     *)
(* shared state, and the goroutines interleave between steps.              *)
(***************************************************************************)
Workers == 1..NumWorkers
Destroyer == NumWorkers + 1
Goroutines == Workers \cup {Destroyer}

\* What a goroutine reads from the field p.store.
StoreField == IF pool.storeNil THEN "nil" ELSE "chan"

InitRace ==
  /\ streams = <<>>
  /\ HeapIdle
  /\ DedupIdle
  /\ TreeIdle
  /\ maxCap \in 1..PoolMaxCap
  /\ initCap \in 0..maxCap
  /\ \E ping \in BOOLEAN, close \in BOOLEAN :
       LET r == NewTCPPool(initCap, maxCap, TRUE, 0)
       IN /\ pErr = r.err
          /\ pool = [r.p EXCEPT !.Ping = ping, !.Close = close]
          /\ created = Len(r.p.store)
  /\ held = {}
  /\ destroyed = FALSE
  /\ pLast = NoCall
  /\ ClientIdle
  /\ storeClosed = FALSE
  /\ mu = NoGoroutine
  /\ gpc = [g \in Goroutines |-> "idle"]
  /\ gch = [g \in Workers |-> "none"]
  /\ gv = [g \in Workers |-> NilConn]
  /\ closedConns = {}
  /\ wasPut = {}
  /\ racePanic = FALSE

\* Get, line 68: if p.store == nil { return nil, ErrClosed }.
RaceGetCheck(g) ==
  /\ ~racePanic
  /\ gpc[g] = "idle"
  /\ gv[g] = NilConn
  /\ gpc' = [gpc EXCEPT ![g] = IF StoreField = "nil" THEN "idle" ELSE "getEval"]
  /\ UNCHANGED <<streams, heapVars, dedupVars, treeVars, poolVars, clientVars,
                 storeClosed, mu, gch, gv, closedConns, wasPut, racePanic>>

\* Get, line 73: the select evaluates the channel operand p.store.
RaceGetEval(g) ==
  /\ ~racePanic
  /\ gpc[g] = "getEval"
  /\ gch' = [gch EXCEPT ![g] = StoreField]
  /\ gpc' = [gpc EXCEPT ![g] = "getSelect"]
  /\ UNCHANGED <<streams, heapVars, dedupVars, treeVars, poolVars, clientVars,
                 storeClosed, mu, gv, closedConns, wasPut, racePanic>>

\* Get, lines 72-80: a receive from the nil channel is never ready, a
\* receive from the closed and drained channel yields nil at once.
RaceGetSelect(g) ==
  /\ ~racePanic
  /\ gpc[g] = "getSelect"
  /\ \E pingOk \in BOOLEAN, newOk \in BOOLEAN :
       IF gch[g] = "chan" /\ (pool.store # <<>> \/ storeClosed)
       THEN LET v == IF pool.store # <<>> THEN Head(pool.store) ELSE NilConn
            IN /\ pool' = [pool EXCEPT !.store = IF @ # <<>> THEN Tail(@) ELSE @]
               /\ created' = created
               /\ IF pool.Ping /\ ~pingOk
                  THEN /\ gpc' = [gpc EXCEPT ![g] = "getEval"]
                       /\ gv' = gv
                       /\ wasPut' = wasPut
                  ELSE /\ gpc' = [gpc EXCEPT ![g] = "idle"]
                       /\ gv' = [gv EXCEPT ![g] = v]
                       /\ wasPut' = wasPut \ {v}
       ELSE LET c == create(pool, newOk, created + 1)
            IN /\ c.err = NilError => created < PoolMaxConns
               /\ pool' = pool
               /\ created' = IF c.err = NilError THEN created + 1 ELSE created
               /\ gpc' = [gpc EXCEPT ![g] = "idle"]
               /\ gv' = [gv EXCEPT ![g] = c.v]
               /\ wasPut' = wasPut
  /\ UNCHANGED <<streams, heapVars, dedupVars, treeVars, clientVars, initCap, maxCap,
                 pErr, held, destroyed, pLast, storeClosed, mu, gch, closedConns,
                 racePanic>>

\* Put, line 87: the select evaluates the channel operand p.store.
RacePutEval(g) ==
  /\ ~racePanic
  /\ gpc[g] = "idle"
  /\ gv[g] # NilConn
  /\ gch' = [gch EXCEPT ![g] = StoreField]
  /\ gpc' = [gpc EXCEPT ![g] = "putSelect"]
  /\ UNCHANGED <<streams, heapVars, dedupVars, treeVars, poolVars, clientVars,
                 storeClosed, mu, gv, closedConns, wasPut, racePanic>>

\* Put, lines 86-95: a send on the nil channel or on a full channel is not
\* ready, a send on a closed channel panics.
RacePutSelect(g) ==
  /\ ~racePanic
  /\ gpc[g] = "putSelect"
  /\ IF gch[g] = "chan" /\ storeClosed
     THEN /\ racePanic' = TRUE
          /\ gpc' = [gpc EXCEPT ![g] = "panic"]
          /\ UNCHANGED <<pool, closedConns>>
     ELSE /\ racePanic' = FALSE
          /\ gpc' = [gpc EXCEPT ![g] = "idle"]
          /\ IF gch[g] = "chan" /\ Len(pool.store) < pool.storeCap
             THEN /\ pool' = [pool EXCEPT !.store = Append(@, gv[g])]
                  /\ closedConns' = closedConns
             ELSE /\ pool' = pool
                  /\ closedConns' = IF pool.Close THEN closedConns \cup {gv[g]}
                                    ELSE closedConns
  /\ wasPut' = wasPut \cup {gv[g]}
  /\ gv' = [gv EXCEPT ![g] = NilConn]
  /\ UNCHANGED <<streams, heapVars, dedupVars, treeVars, clientVars, initCap, maxCap,
                 pErr, created, held, destroyed, pLast, storeClosed, mu, gch>>

\* Destroy, line 100: p.mu.Lock().
RaceDestroyLock ==
  /\ ~racePanic
  /\ gpc[Destroyer] = "idle"
  /\ mu = NoGoroutine
  /\ mu' = Destroyer
  /\ gpc' = [gpc EXCEPT ![Destroyer] = "locked"]
  /\ UNCHANGED <<streams, heapVars, dedupVars, treeVars, poolVars, clientVars,
                 storeClosed, gch, gv, closedConns, wasPut, racePanic>>

\* Destroy, lines 102-106: return (and unlock) when p.store is nil, else
\* close(p.store).
RaceDestroyClose ==
  /\ ~racePanic
  /\ gpc[Destroyer] = "locked"
  /\ IF pool.storeNil
     THEN /\ mu' = NoGoroutine
          /\ gpc' = [gpc EXCEPT ![Destroyer] = "idle"]
          /\ UNCHANGED <<storeClosed, destroyed>>
     ELSE /\ storeClosed' = TRUE
          /\ gpc' = [gpc EXCEPT ![Destroyer] = "range"]
          /\ UNCHANGED <<mu, destroyed>>
  /\ UNCHANGED <<streams, heapVars, dedupVars, treeVars, clientVars, initCap, maxCap,
                 pool, pErr, created, held, pLast, gch, gv, closedConns, wasPut,
                 racePanic>>

\* Destroy, lines 107-113: one round of for v := range p.store.
RaceDestroyRange ==
  /\ ~racePanic
  /\ gpc[Destroyer] = "range"
  /\ pool.store # <<>>
  /\ pool' = [pool EXCEPT !.store = Tail(@)]
  /\ closedConns' = IF pool.Close THEN closedConns \cup {Head(pool.store)}
                    ELSE closedConns
  /\ UNCHANGED <<streams, heapVars, dedupVars, treeVars, clientVars, initCap, maxCap,
                 pErr, created, held, destroyed, pLast, storeClosed, mu, gpc, gch,
                 gv, wasPut, racePanic>>

\* Destroy, lines 114-119: the range loop ends on the drained channel, then
\* p.store = nil, return and unlock.
RaceDestroyReturn ==
  /\ ~racePanic
  /\ gpc[Destroyer] = "range"
  /\ pool.store = <<>>
  /\ pool' = [pool EXCEPT !.storeNil = TRUE]
  /\ destroyed' = TRUE
  /\ mu' = NoGoroutine
  /\ gpc' = [gpc EXCEPT ![Destroyer] = "idle"]
  /\ UNCHANGED <<streams, heapVars, dedupVars, treeVars, clientVars, initCap, maxCap,
                 pErr, created, held, pLast, storeClosed, gch, gv, closedConns,
                 wasPut, racePanic>>

RaceGet == \E g \in Workers : RaceGetCheck(g) \/ RaceGetEval(g) \/ RaceGetSelect(g)

RacePut == \E g \in Workers : RacePutEval(g) \/ RacePutSelect(g)

RaceDestroy ==
  RaceDestroyLock \/ RaceDestroyClose \/ RaceDestroyRange \/ RaceDestroyReturn

NextRace == RaceGet \/ RacePut \/ RaceDestroy

SpecRace == InitRace /\ [][NextRace]_vars

\* ---- properties of the tournament merger --------------------------------
Labels(s) == [i \in DOMAIN s |-> s[i].lbl]

\* The Pop/Fix alternation has ended: Pop has returned nil, or a call
\* panicked.
TreeFinished == tPanic \/ tpc = "done"

\* C3: the Pop/Fix alternation returns a stream as many times as the input
\* streams hold series, and then nil.
C3_TreePopCount == TreeFinished => Len(tOut) = Len(Flatten(streams))

SingletonsAscending(strs) ==
  /\ \A k \in DOMAIN strs : Len(strs[k]) = 1
  /\ \A j, k \in DOMAIN strs : j < k => strs[j][1].lbl < strs[k][1].lbl

\* The order half of C4: the labels read after the Pops never decrease.
TreePopsNonDecreasing == NonDecreasing(Labels(tOut))

\* C4: the labels read after the Pops never decrease, and singleton streams
\* given in ascending order are popped in that order, all of them.
C4_TreePopOrder ==
  /\ TreePopsNonDecreasing
  /\ (SingletonsAscending(streams) /\ TreeFinished) => tOut = Flatten(streams)

MaximalRun(s, a, b) ==
  /\ a <= b
  /\ \A i \in a..b : s[i].lbl = s[a].lbl
  /\ (a > 1 => s[a - 1].lbl # s[a].lbl)
  /\ (b < Len(s) => s[b + 1].lbl # s[a].lbl)

EqualUpToRuns(s, t) ==
  /\ Labels(s) = Labels(t)
  /\ \A a, b \in DOMAIN s :
       MaximalRun(s, a, b) => SameBag(SubSeq(s, a, b), SubSeq(t, a, b))

\* C5: when both mergers have ended over the same input, their outputs are
\* equal up to the order inside runs of equal labels.
C5_HeapTreeEquivalent ==
  (HeapFinished /\ TreeFinished) => EqualUpToRuns(hOut, tOut)

LiveLeaves == {i \in DOMAIN nodes : nodes[i] # Infinity}

RootAux == auxiliaryNodes[Len(auxiliaryNodes)]

RootIsInfinity == RootAux.nil \/ RootAux.ss = Infinity

\* C10: at rest (after construction, after a Fix) the root aux node holds a
\* stream whose current label is at most that of every live leaf, and it
\* holds infinity exactly when no leaf is live.
C10_RootIsMinimum ==
  (tpc = "pop" /\ ~tPanic) =>
    /\ RootIsInfinity <=> LiveLeaves = {}
    /\ ~RootIsInfinity =>
         /\ ssValid(streams, ssi, RootAux.ss)
         /\ \A i \in LiveLeaves :
              ssAt(streams, ssi, RootAux.ss).lbl <= ssAt(streams, ssi, nodes[i]).lbl

\* ---- the shape of the tree ----------------------------------------------
\* The stream an aux node refers to (Go index i); a nil node refers to none.
AuxRef(i) ==
  IF auxiliaryNodes[i + 1].nil THEN Infinity ELSE auxiliaryNodes[i + 1].ss

\* The current label of a stream reference; infinity is above every label.
Key(ref) ==
  IF ref = Infinity \/ ~ssValid(streams, ssi, ref) THEN TreeMaxLabel + 1
  ELSE ssAt(streams, ssi, ref).lbl

\* The references held by the children of aux node i, which lies above the
\* level of aux nodes prevStart .. prevStart + prevCount - 1.
RECURSIVE AuxChildRefs(_, _, _)
AuxChildRefs(i, prevStart, prevCount) ==
  LET start == prevStart + prevCount
      count == nextLevelNodeCount(prevCount)
      l == prevStart + 2 * (i - start)
  IN IF i < start + count
     THEN {AuxRef(l)} \cup (IF l + 1 < start THEN {AuxRef(l + 1)} ELSE {})
     ELSE AuxChildRefs(i, start, count)

ChildRefs(i) ==
  IF i < Len(nodes) \div 2 THEN {nodes[2 * i + 1], nodes[2 * i + 2]}
  ELSE AuxChildRefs(i, 0, Len(nodes) \div 2)

AuxHoldsSmallerChild(i) ==
  /\ ~auxiliaryNodes[i + 1].nil
  /\ AuxRef(i) \in ChildRefs(i)
  /\ \A c \in ChildRefs(i) : Key(AuxRef(i)) <= Key(c)

\* C11: at rest (after construction, after a Fix) every aux node holds the
\* stream reference of one of its two children, the one whose current label
\* is smaller, infinity counting as larger than every label.
C11_AuxHoldsSmallerChild ==
  (tpc = "pop" /\ ~tPanic) =>
    \A i \in 0..(Len(auxiliaryNodes) - 1) : AuxHoldsSmallerChild(i)

\* The statement of C11 for the tree as NewProxyTournamentTree leaves it.
AuxHoldsSmallerChildAtConstruction ==
  (tpc = "pop" /\ lastChangedNodeIndex = -1) =>
    \A i \in 0..(Len(auxiliaryNodes) - 1) : AuxHoldsSmallerChild(i)

AllLeavesExhausted == \A i \in DOMAIN nodes : nodes[i] = Infinity

\* C13: once every leaf is exhausted, Pop returns nil and leaves the tree as
\* it was, and so does every Pop after it.
C13_TerminalPopIdempotent ==
  [][(AllLeavesExhausted /\ TreePop) =>
       /\ tpc' = "done"
       /\ ~tPanic'
       /\ UNCHANGED <<nodes, auxiliaryNodes, lastChangedNodeIndex, ssi, tOut>>]_vars

C13_Witness ==
  /\ AllLeavesExhausted
  /\ tpc = "done"
  /\ Len(streams) = 2
  /\ Len(tOut) = 3

\* C15: Fix on a tree that has never been popped panics and writes no leaf
\* and no aux node (and advances no stream).
C15_FixBeforePopIsFatal ==
  [][TreeFixBeforePop =>
       /\ tPanic'
       /\ UNCHANGED <<nodes, auxiliaryNodes, lastChangedNodeIndex, ssi>>]_vars

C15_Witness ==
  /\ tPanic
  /\ lastChangedNodeIndex = -1
  /\ Len(streams) = 3
  /\ tOut = <<>>

AfterConstruction == tpc = "pop" /\ lastChangedNodeIndex = -1

LeafPairs == 0..((Len(nodes) \div 2) - 1)

\* The aux node above the leaf pair i records leaf w as the winner.
RecordsLeaf(i, w) ==
  /\ ~auxiliaryNodes[i + 1].nil
  /\ auxiliaryNodes[i + 1].ss = nodes[w + 1]
  /\ auxiliaryNodes[i + 1].previousNodeIndex = w
  /\ auxiliaryNodes[i + 1].previousAuxIndex = -1

\* C16: after construction, above a pair of leaves with equal labels the aux
\* node holds the left leaf; above a pair of which exactly one leaf is
\* infinity it holds the other leaf; the back-reference is the winner's index.
C16_LeafPairWinner ==
  AfterConstruction =>
    \A i \in LeafPairs :
      LET l == nodes[2 * i + 1]
          r == nodes[2 * i + 2]
      IN /\ (l # Infinity /\ r # Infinity /\ Key(l) = Key(r)) => RecordsLeaf(i, 2 * i)
         /\ (l # Infinity /\ r = Infinity) => RecordsLeaf(i, 2 * i)
         /\ (l = Infinity /\ r # Infinity) => RecordsLeaf(i, 2 * i + 1)

\* What the constructor does for a pair of leaves with equal labels (the right
\* leaf wins) and for a pair whose right leaf is the padding.
LeafPairWinnerOfTheCode ==
  AfterConstruction =>
    \A i \in LeafPairs :
      LET l == nodes[2 * i + 1]
          r == nodes[2 * i + 2]
      IN /\ (l # Infinity /\ r # Infinity /\ Key(l) = Key(r)) => RecordsLeaf(i, 2 * i + 1)
         /\ (l # Infinity /\ r = Infinity) => RecordsLeaf(i, 2 * i)

\* The sum of the level sizes ceil(m/2), ceil(ceil(m/2)/2), ... down to 1.
RECURSIVE LevelSizesSum(_)
LevelSizesSum(m) ==
  IF m <= 1 THEN 0
  ELSE ((m + 1) \div 2) + LevelSizesSum((m + 1) \div 2)

RoundUpToEven(n) == IF n % 2 = 0 THEN n ELSE n + 1

\* C17: the aux array of a tree over n streams is as long as the sum of the
\* level sizes over n rounded up to an even number: 1 for 2 streams, 3 for 3,
\* 6 for 5.
C17_AuxLength ==
  /\ Len(auxiliaryNodes) = LevelSizesSum(RoundUpToEven(Len(streams)))
  /\ Len(streams) = 2 => Len(auxiliaryNodes) = 1
  /\ Len(streams) = 3 => Len(auxiliaryNodes) = 3
  /\ Len(streams) = 5 => Len(auxiliaryNodes) = 6

C17_Witness ==
  /\ AfterConstruction
  /\ Len(streams) = 5
  /\ Len(auxiliaryNodes) = 6
  /\ Len(nodes) = 6

\* C21: a tree over one stream has no aux node, and the Pop/Fix alternation
\* on it reads the series of that stream in order and then Pop returns nil.
C21_SingleStream ==
  Len(streams) = 1 =>
    /\ Len(auxiliaryNodes) = 0
    /\ ~tPanic
    /\ tOut = SubSeq(streams[1], 1, Len(tOut))
    /\ tpc = "done" => tOut = streams[1]

\* The emission half of C21: the tree over one stream (padded to two leaves
\* under one aux node) reads the series of the stream in order.
SingleStreamEmitsInOrder ==
  Len(streams) = 1 =>
    /\ Len(auxiliaryNodes) = 1
    /\ ~tPanic
    /\ tOut = SubSeq(streams[1], 1, Len(tOut))
    /\ tpc = "done" => tOut = streams[1]

\* ---- properties of the connection pool ----------------------------------
\* The last call was a Put to a pool that held fewer than maxCap connections.
PutToNotFull == pLast.op = "Put" /\ Len(pLast.before) < maxCap

\* The last call was a Put to a pool that was open and held no connection.
PutToEmptyOpen ==
  pLast.op = "Put" /\ ~pLast.wasDestroyed /\ pLast.before = <<>>

\* A Get that called New found no connection in the store that Ping accepts.
GetCreatesOnlyWhenNoneUsable ==
  (pLast.op = "Get" /\ pLast.new) => Range(pLast.before) \subseteq pLast.failed

\* C23: the Get that follows a Put to a pool that is not full returns the
\* connection that was put and does not call New; a Get calls New only when
\* the pool holds no usable connection.
C23_PutThenGet ==
  [][/\ (PutToNotFull /\ pLast'.op = "Get") =>
          (pLast'.v = pLast.v /\ ~pLast'.new)
     /\ GetCreatesOnlyWhenNoneUsable']_vars

\* C23 as the code has it: the Get that follows a Put to an open pool that
\* held no connection returns the connection that was put, unless Ping rejects
\* it, and does not call New; a Get calls New only when the pool holds no
\* usable connection.
PutToEmptyPoolThenGet ==
  [][/\ (PutToEmptyOpen /\ pLast'.op = "Get" /\ pLast.v \notin pLast'.failed) =>
          (pLast'.v = pLast.v /\ ~pLast'.new)
     /\ GetCreatesOnlyWhenNoneUsable']_vars

PutToEmptyPoolThenGet_Witness ==
  /\ initCap = 0
  /\ pLast.op = "Get"
  /\ pLast.before = <<pLast.v>>
  /\ ~pLast.new
  /\ created = 1

\* C24: once Destroy has returned, every Get returns ErrClosed and no
\* connection; the Destroy that closed the pool has called Close on every
\* connection the pool held; a later Destroy returns nil.
C24_DestroyClosesPool ==
  /\ (pLast.op = "Get" /\ pLast.wasDestroyed) =>
        (pLast.err = "ErrClosed" /\ pLast.v = NilConn /\ ~pLast.new)
  /\ (pLast.op = "Destroy" /\ ~pLast.wasDestroyed) =>
        pLast.closed = Range(pLast.before)
  /\ (pLast.op = "Destroy" /\ pLast.wasDestroyed) => pLast.err = NilError

\* C24 as the code has it: Destroy calls Close on every connection the pool
\* held when the Close field is set, and on none when it is nil.
DestroyClosesPoolWhenCloseIsSet ==
  /\ (pLast.op = "Get" /\ pLast.wasDestroyed) =>
        (pLast.err = "ErrClosed" /\ pLast.v = NilConn /\ ~pLast.new)
  /\ (pLast.op = "Destroy" /\ ~pLast.wasDestroyed) =>
        pLast.closed = IF pool.Close THEN Range(pLast.before) ELSE {}
  /\ (pLast.op = "Destroy" /\ pLast.wasDestroyed) => pLast.err = NilError

DestroyClosesPoolWhenCloseIsSet_Witness ==
  /\ pLast.op = "Get"
  /\ pLast.wasDestroyed
  /\ pLast.err = "ErrClosed"
  /\ pool.Close
  /\ held # {}

\* C25: after Get and Put calls only, the pool never holds more than maxCap
\* connections, and a connection passed to Put is stored in the pool or, the
\* pool being full, passed to Close.
C25_PutStoresOrCloses ==
  (PoolReturned(pErr) /\ ~destroyed) =>
    /\ PoolLen(pool) <= maxCap
    /\ pLast.op = "Put" =>
         \/ pool.store = Append(pLast.before, pLast.v)
         \/ Len(pLast.before) = maxCap /\ pLast.closed = {pLast.v}

\* C25 as the code has it: a connection passed to Put is stored when the pool
\* is open and not full; otherwise it is passed to Close when the Close field
\* is set and dropped when it is nil.
PutStoresOrClosesWhenCloseIsSet ==
  PoolReturned(pErr) =>
    /\ PoolLen(pool) <= maxCap
    /\ pLast.op = "Put" =>
         IF ~pLast.wasDestroyed /\ Len(pLast.before) < maxCap
         THEN pool.store = Append(pLast.before, pLast.v) /\ pLast.closed = {}
         ELSE /\ pool.store = pLast.before
              /\ pLast.closed = IF pool.Close THEN {pLast.v} ELSE {}

PutStoresOrClosesWhenCloseIsSet_Witness ==
  /\ maxCap = 2
  /\ ~destroyed
  /\ pLast.op = "Put"
  /\ PoolLen(pool) = maxCap
  /\ pLast.closed = {pLast.v}

\* What NewTCPPool is to return for its arguments.
NewTCPPoolResult ==
  IF maxCap = 0 \/ initCap > maxCap
  THEN pErr \notin {NilError, "panic"} /\ created = 0
  ELSE pErr \notin {"error", "Pool.New is nil"} =>
         (pErr = NilError /\ PoolLen(pool) = initCap)

\* C26: NewTCPPool returns an error and creates no connection when maxCap is
\* 0 or initCap exceeds maxCap; otherwise, every call of New succeeding, the
\* pool it returns holds exactly initCap connections.
C26_NewTCPPool == pLast.op = "none" => NewTCPPoolResult

\* The same over capacities that are not negative.
NewTCPPoolOverNaturals ==
  (pLast.op = "none" /\ initCap >= 0 /\ maxCap >= 0) => NewTCPPoolResult

\* ---- Pop and Fix of the tournament merger, step by step -------------------
\* The aux indices on the winner chain: from aux node i down the
\* previousAuxIndex references to the aux node that refers to a leaf.
RECURSIVE WinnerChain(_, _, _)
WinnerChain(aux, i, fuel) ==
  IF fuel = 0 \/ aux[i + 1].nil \/ aux[i + 1].previousAuxIndex = -1
  THEN {i}
  ELSE {i} \cup WinnerChain(aux, aux[i + 1].previousAuxIndex, fuel - 1)

\* The step is a Pop that returned a stream.
NonTerminalPop == tpc \in {"pop", "done"} /\ tpc' = "fix"

\* C27: after a Pop that returned a stream, lastChangedNodeIndex is the index
\* of the leaf that holds that stream, and every aux node of the winner chain
\* from the root down to that leaf is nil.
C27_PopVacatesWinnerChain ==
  [][NonTerminalPop =>
       LET root == Len(auxiliaryNodes) - 1
       IN /\ lastChangedNodeIndex' \in 0..(Len(nodes) - 1)
          /\ nodes[lastChangedNodeIndex' + 1] = auxiliaryNodes[root + 1].ss
          /\ Last(tOut') = ssAt(streams, ssi, nodes[lastChangedNodeIndex' + 1])
          /\ \A i \in WinnerChain(auxiliaryNodes, root, Len(auxiliaryNodes)) :
               auxiliaryNodes'[i + 1] = NilAux]_vars

C27_Witness ==
  /\ tpc = "fix"
  /\ Len(streams) = 5
  /\ Len(tOut) = 3
  /\ lastChangedNodeIndex = 4
  /\ Cardinality({i \in DOMAIN auxiliaryNodes : auxiliaryNodes[i].nil}) >= 3

\* The aux slots on the tree path above a leaf: in the level that starts at
\* from and has count slots, the slot at offset, then its parent level.
RECURSIVE PathSlots(_, _, _)
PathSlots(from, count, offset) ==
  IF count <= 0 THEN {}
  ELSE {from + offset}
         \cup PathSlots(from + count, nextLevelNodeCount(count), offset \div 2)

\* The number of levels of aux nodes above n leaves.
RECURSIVE Levels(_)
Levels(n) == IF n <= 1 THEN 0 ELSE 1 + Levels((n + 1) \div 2)

LeafPath(leaf) == PathSlots(0, Len(nodes) \div 2, leaf \div 2)

\* The step is a Fix that returned.
FixReturns == tpc = "fix" /\ tpc' = "pop"

\* C28: Fix writes one aux slot per level, the slots on the tree path from
\* the changed leaf up to the root aux[m-1], and leaves every other aux slot
\* as it was.
C28_FixRewritesPath ==
  [][FixReturns =>
       LET path == LeafPath(lastChangedNodeIndex)
       IN /\ Cardinality(path) = Levels(Len(nodes))
          /\ Len(auxiliaryNodes) - 1 \in path
          /\ Len(auxiliaryNodes') = Len(auxiliaryNodes)
          /\ \A i \in 0..(Len(auxiliaryNodes) - 1) :
               IF i \in path
               THEN ~auxiliaryNodes'[i + 1].nil
               ELSE auxiliaryNodes'[i + 1] = auxiliaryNodes[i + 1]]_vars

C28_Witness ==
  /\ tpc = "pop"
  /\ Len(streams) = 5
  /\ lastChangedNodeIndex = 4
  /\ Len(tOut) = 2
  /\ ~auxiliaryNodes[3].nil
  /\ ~auxiliaryNodes[5].nil
  /\ ~auxiliaryNodes[6].nil

\* C29: a Fix that follows a Pop calls Next once, on the stream of the leaf
\* the popped winner came from; it replaces that leaf by infinity exactly when
\* Next returned false, and advances or replaces no other leaf.
C29_FixAdvancesPoppedLeaf ==
  [][(tpc = "fix" /\ tpc' # "fix") =>
       LET k == nodes[lastChangedNodeIndex + 1]
       IN /\ k # Infinity
          /\ Last(tOut) = ssAt(streams, ssi, k)
          /\ ssi' = [ssi EXCEPT ![k] = @ + 1]
          /\ nodes' = IF ssi'[k] < Len(streams[k])
                      THEN nodes
                      ELSE [nodes EXCEPT ![lastChangedNodeIndex + 1] = Infinity]]_vars

C29_Witness ==
  /\ tpc = "pop"
  /\ Len(streams) = 3
  /\ lastChangedNodeIndex = 2
  /\ nodes[3] = Infinity
  /\ nodes[1] = 1
  /\ ssi[1] = 1
  /\ ssi[2] = 0

\* The aux indices of the children of aux node i, which lies above the level
\* of aux nodes prevStart .. prevStart + prevCount - 1.
RECURSIVE AuxChildren(_, _, _)
AuxChildren(i, prevStart, prevCount) ==
  LET start == prevStart + prevCount
      count == nextLevelNodeCount(prevCount)
      l == prevStart + 2 * (i - start)
  IN IF i < start + count
     THEN {l} \cup (IF l + 1 < start THEN {l + 1} ELSE {})
     ELSE AuxChildren(i, start, count)

\* Aux node i has one back-reference set, to one of its two children, and
\* holds the stream that child holds.
BackReferenceDesignatesChild(i) ==
  LET a == auxiliaryNodes[i + 1]
  IN /\ ~a.nil
     /\ (a.previousAuxIndex = -1) # (a.previousNodeIndex = -1)
     /\ IF i < Len(nodes) \div 2
        THEN /\ a.previousNodeIndex \in {2 * i, 2 * i + 1}
             /\ a.ss = nodes[a.previousNodeIndex + 1]
        ELSE /\ a.previousAuxIndex \in AuxChildren(i, 0, Len(nodes) \div 2)
             /\ a.ss = AuxRef(a.previousAuxIndex)

\* Following the back-references from aux node i reaches a leaf.
RECURSIVE ReachesLeaf(_, _)
ReachesLeaf(i, fuel) ==
  LET a == auxiliaryNodes[i + 1]
  IN IF fuel = 0 \/ a.nil THEN FALSE
     ELSE IF a.previousAuxIndex # -1
     THEN /\ a.previousAuxIndex \in 0..(Len(auxiliaryNodes) - 1)
          /\ ReachesLeaf(a.previousAuxIndex, fuel - 1)
     ELSE a.previousNodeIndex \in 0..(Len(nodes) - 1)

\* C30: after construction and after every Fix, every aux node has exactly one
\* back-reference set, the node it designates is one of its two children and
\* holds the same stream, and the back-references from the root lead to a leaf.
C30_BackReferences ==
  (tpc = "pop" /\ ~tPanic) =>
    /\ \A i \in 0..(Len(auxiliaryNodes) - 1) : BackReferenceDesignatesChild(i)
    /\ ReachesLeaf(Len(auxiliaryNodes) - 1, Len(auxiliaryNodes))

\* The statement of C30 for the tree as NewProxyTournamentTree leaves it.
BackReferencesAtConstruction == AfterConstruction => C30_BackReferences

\* The statement of C30 for trees over at most four streams.
BackReferencesUpToFourLeaves == Len(nodes) <= 4 => C30_BackReferences

\* ---- the dedup stream, call by call ---------------------------------------
\* The step is a call of dedupResponseHeap.Next that returned.
DedupNextReturns == dpc \in {"next", "done"} /\ dpc' \in {"at", "done"}

\* A response read from the heap has not been put in a buffer yet: it is the
\* one read ahead.
LookAheadPending ==
  Len(hOut) > Sum([i \in DOMAIN dOut |-> Len(dOut[i].run)]) + Len(responses)

\* No response is left upstream: the heap is empty and none is read ahead.
UpstreamExhausted == Empty(h) /\ ~LookAheadPending

\* C31: Next of the dedup stream returns false exactly when the heap merger is
\* exhausted and no response read ahead is pending; after it has returned
\* false it returns false on every later call.
C31_DedupNextFalseWhenExhausted ==
  [][DedupNextReturns =>
       /\ (dpc' = "done") <=> UpstreamExhausted
       /\ dpc = "done" => dpc' = "done"]_vars

\* The statement of C31 over inputs of series responses.
DedupNextFalseWhenExhaustedOverSeries ==
  [][(DedupNextReturns /\ AllSeries(streams) /\ NoEmptyStream(streams)) =>
       /\ (dpc' = "done") <=> UpstreamExhausted
       /\ dpc = "done" => dpc' = "done"]_vars

\* C32: when the run folded by one Next holds a single response, At returns
\* that response of the heap as it is, labels and chunk list.
C32_SingleRunVerbatim ==
  \A i \in DOMAIN dOut :
    Len(dOut[i].run) = 1 =>
      /\ dOut[i].resp = dOut[i].run[1]
      /\ dOut[i].resp \in Range(hOut)

C32_Witness ==
  /\ Len(dOut) = 2
  /\ Len(dOut[1].run) = 2
  /\ Len(dOut[2].run) = 1
  /\ GetSeries(dOut[2].resp)
  /\ Len(dOut[2].resp.chks) = 2

\* The step is a call of At that follows a call of At, with no Next between.
AtCalledAgain == dpc = "next" /\ dpc' = "next" /\ Len(dOut') = Len(dOut) + 1

\* C33: between two calls of Next, every call of At returns the same
\* response; only Next clears the buffer.
C33_AtRepeatable ==
  [][AtCalledAgain => Last(dOut').resp = Last(dOut).resp]_vars

\* ---- properties of the remote-write client --------------------------------
\* C34: one call of RemoteWrite makes at most three write attempts, returns
\* the wrapped write error when three attempts have failed, and returns.
C34_RemoteWriteAttempts ==
  wCalls > 0 =>
    /\ wLast.attempts <= 3
    /\ ~wLast.panic
    /\ wLast.failed = 3 => wLast.err = "failed writing to peer"

\* The statement of C34 for a call that returns.
RemoteWriteAttemptsWhenReturning ==
  (wCalls > 0 /\ ~wLast.panic) =>
    /\ wLast.attempts <= 3
    /\ wLast.failed = 3 => wLast.err = "failed writing to peer"

\* C39: a write attempt that fails with a disconnect closes the connection
\* the client holds and clears it, so that the next attempt dials again; Close
\* is never called on a nil connection and no nil connection is put into the
\* pool.
C39_DisconnectClosesAndClears ==
  wCalls > 0 =>
    /\ wLast.disconnected => conn = NilConn
    /\ wLast.redialed
    /\ ~wLast.closedNil
    /\ ~wLast.putNil
    /\ NilConn \notin Range(pool.store)

\* The statement of C39 for the first call on a client, when no attempt
\* fails with an error that is not a disconnect.
DisconnectClosesAndClearsOnFirstDial ==
  (wCalls = 1 /\ wLast.failed = 0) =>
    /\ wLast.disconnected => conn = NilConn
    /\ wLast.redialed
    /\ ~wLast.closedNil
    /\ ~wLast.putNil

\* ---- the tournament merger under any order of Pop and Fix -----------------
\* Every stream has been read to its end; the series the last Pop returned
\* counts as read while its Fix is due.
StreamsExhausted ==
  \A k \in DOMAIN streams :
    ssi[k] + (IF tpc = "nil" /\ nodes[lastChangedNodeIndex + 1] = k THEN 1 ELSE 0)
      >= Len(streams[k])

\* C35: under any order of Pop and Fix calls (no Fix before the first Pop),
\* Pop returns nil only when every stream is exhausted, also a Pop that
\* follows a Pop with no Fix between them.
C35_TerminalOnlyWhenExhausted ==
  (~tPanic /\ tpc \in {"done", "nil"}) => StreamsExhausted

\* The step is a call of Fix.
FixCalled == TreeFix \/ TreeFixAfterPopAgain \/ TreeFixAgain

\* C36: under any order of Pop and Fix calls, a stream is advanced only past
\* a series that a Pop has returned (a Fix is due), and Fix does not call Next
\* on a leaf that is infinity.
C36_NoItemSkipped ==
  [][/\ ssi' # ssi => tpc \in {"fix", "nil"}
     /\ FixCalled => nodes[lastChangedNodeIndex + 1] # Infinity]_vars

\* The statement of C36 for the Pop/Fix alternation.
NoItemSkippedInAlternation ==
  [][(TreePop \/ TreeFix) =>
       /\ ssi' # ssi => tpc = "fix"
       /\ TreeFix => nodes[lastChangedNodeIndex + 1] # Infinity]_vars

\* The connections the last Get received from the store.
TakenByGet ==
  pLast.failed \cup (IF pLast.err = NilError /\ ~pLast.new THEN {pLast.v} ELSE {})

\* C38: every connection Get takes out of the store is returned to the
\* caller or passed to Close; one that fails Ping is closed.
C38_GetReturnsOrCloses ==
  pLast.op = "Get" =>
    \A c \in TakenByGet :
      \/ pLast.err = NilError /\ pLast.v = c
      \/ c \in pLast.closed

\* The connections a returned Put has left neither in the store nor closed.
PutAndLost == wasPut \ (Range(pool.store) \cup closedConns)

\* C37: with goroutines calling Get and Put while another calls Destroy, no
\* Put sends on the store channel after Destroy closed it, and every
\* connection that was Put is in the store or has been closed.
C37_NoSendOnClosedStore ==
  /\ ~racePanic
  /\ PutAndLost = {}
====
